---- MODULE Spec2Model ----
(***************************************************************************)
(* Contract review pipeline: the structural chunker                        *)
(* (server/services/chunker.js), the per-chunk analysis and the            *)
(* consolidation of the AI service, the analyze endpoints, and the vector  *)
(* store with the question-answering pipeline (server/services/rag.js).    *)
(*                                                                         *)
(* Text is a sequence of characters.  An ASCII character is the one-letter *)
(* string; a character outside ASCII is named by its code point ("U4E0A"). *)
(* Token estimates are integers: ceil(0.7*c + 0.25*o) is computed as       *)
(* (14*c + 5*o + 19) \div 20, which agrees with the floating-point value.  *)
(***************************************************************************)
EXTENDS Integers, Sequences, FiniteSets, TLC

VARIABLES
    text,          \* the text handed to the chunker / the request body's text
    config,        \* the chunker's configuration
    chunks,        \* what smartChunk returned
    pc,            \* where the operation stands
    endpoint,      \* "stream" (POST /analyze/:id) or "sync" (POST /analyze-sync/:id)
    batchStart,    \* i of the map loop: chunks before it are analysed
    outstanding,   \* chunk numbers whose analyzeChunk call is in flight
    batchResults,  \* chunk number -> settled result of the current batch
    chunkResults,  \* the results pushed so far, in push order
    chunkReply,    \* chunk number -> what callAI gave analyzeChunk, current batch
    reducerReply,  \* what callAI gave consolidateAnalysis
    response,      \* what the endpoint answered
    events,        \* the records written to the event stream of /analyze/:id
    cancelledAt,   \* batchStart when the client went away, -1 while it is there
    callMaxRetries,\* callAI: options.maxRetries
    callLog,       \* callAI: what each HTTP attempt met, in order
    callOutcome,   \* callAI: "idle", "running", "returned" or "thrown"
    rows,          \* the table document_chunks
    nextId,        \* the rows inserted so far, for the row ids
    tasks          \* the indexDocument calls in flight

vars == <<text, config, chunks, pc, endpoint, batchStart, outstanding, batchResults,
          chunkResults, chunkReply, reducerReply, response, events, cancelledAt,
          callMaxRetries, callLog, callOutcome, rows, nextId, tasks>>

callVars == <<callMaxRetries, callLog, callOutcome>>

storeVars == <<rows, nextId, tasks>>

jobVars == <<text, config, chunks, pc, endpoint, batchStart, outstanding, batchResults,
             chunkResults, chunkReply, reducerReply, response, events, cancelledAt>>

analysisVars == <<endpoint, batchStart, outstanding, batchResults, chunkResults,
                  chunkReply, reducerReply, response, events, cancelledAt>>

-----------------------------------------------------------------------------
(* Characters and strings                                                  *)

LF == "\n"
CR == "\r"
SP == " "

\* the characters of the range U+4E00..U+9FFF that occur in the model
CJKNumerals == {"U4E00", "U4E8C", "U4E09", "U56DB", "U4E94", "U516D", "U4E03",
                "U516B", "U4E5D", "U5341"}
CJKArticleNumerals == CJKNumerals \cup {"U767E", "U5343", "U96F6"}
CJKArticleUnits == {"U6761", "U7AE0", "U8282", "U6B3E", "U9879"}
CJKChars == CJKArticleNumerals \cup CJKArticleUnits \cup
            {"U7B2C", "U7532", "U65B9", "U4E59", "U4E19", "U7B7E", "U5B57",
             "U76D6", "U65E5", "U671F", "U5730", "U5740", "U4E0A", "U6587",
             "U7EED", "U4E2D", "U672A", "U547D", "U540D", "U98CE", "U9669",
             "U5206", "U6790", "U4E0D", "U5B8C", "U6574"}

Digits == {"0", "1", "2", "3", "4", "5", "6", "7", "8", "9"}
UpperLetters == <<"A", "B", "C", "D", "E", "F", "G", "H", "I", "J", "K", "L", "M",
                  "N", "O", "P", "Q", "R", "S", "T", "U", "V", "W", "X", "Y", "Z">>
LowerLetters == <<"a", "b", "c", "d", "e", "f", "g", "h", "i", "j", "k", "l", "m",
                  "n", "o", "p", "q", "r", "s", "t", "u", "v", "w", "x", "y", "z">>
UpperSet == {UpperLetters[i] : i \in 1..Len(UpperLetters)}

\* \s of a JavaScript regular expression, and what String.prototype.trim removes
WhiteSpace == {SP, LF, CR, "\t", "U3000"}

SetMin(S) == CHOOSE x \in S : \A y \in S : x <= y
\* the greatest element, found as the least of the negated elements
SetMax(S) == 0 - SetMin({0 - x : x \in S})

ToLower(c) ==
    IF c \in UpperSet
    THEN LowerLetters[CHOOSE i \in 1..Len(UpperLetters) : UpperLetters[i] = c]
    ELSE c

LowerCase(s) == [i \in 1..Len(s) |-> ToLower(s[i])]

Tail2(s, k) == SubSeq(s, k, Len(s))

StartsWith(s, w) == Len(s) >= Len(w) /\ SubSeq(s, 1, Len(w)) = w

StartsWithCI(s, w) == StartsWith(LowerCase(s), LowerCase(w))

\* the number of leading characters of s that belong to S
LeadingCount(s, S) ==
    LET other == {i \in 1..Len(s) : s[i] \notin S}
    IN  IF other = {} THEN Len(s) ELSE SetMin(other) - 1

\* String.prototype.trim
trim(s) ==
    LET keep == {i \in 1..Len(s) : s[i] \notin WhiteSpace}
    IN  IF keep = {} THEN <<>> ELSE SubSeq(s, SetMin(keep), SetMax(keep))

\* text.split(/\r?\n/)
RECURSIVE SplitLines(_)
SplitLines(s) ==
    LET nl == {i \in 1..Len(s) : s[i] = LF}
    IN  IF nl = {} THEN <<s>>
        ELSE LET k == SetMin(nl)
                 head == SubSeq(s, 1, k - 1)
                 line == IF head # <<>> /\ head[Len(head)] = CR
                         THEN SubSeq(head, 1, Len(head) - 1) ELSE head
             IN  <<line>> \o SplitLines(Tail2(s, k + 1))

-----------------------------------------------------------------------------
(* Token estimator and language detector                                   *)

CountCJK(s) == Cardinality({i \in 1..Len(s) : s[i] \in CJKChars})

estimateTokens(s) ==
    LET chineseChars == CountCJK(s)
        otherChars == Len(s) - chineseChars
    IN  (14 * chineseChars + 5 * otherChars + 19) \div 20

\* chineseChars / text.length > 0.3; 0/0 is NaN, and NaN > 0.3 is false
detectLanguage(s) ==
    IF Len(s) > 0 /\ 10 * CountCJK(s) > 3 * Len(s) THEN "zh" ELSE "en"

-----------------------------------------------------------------------------
(* LEGAL_PATTERNS, each tested against a trimmed line                      *)

WordArticle == <<"a", "r", "t", "i", "c", "l", "e">>
WordSection == <<"s", "e", "c", "t", "i", "o", "n">>
EnSignatureWords ==
    { <<"i", "n", " ", "w", "i", "t", "n", "e", "s", "s", " ",
        "w", "h", "e", "r", "e", "o", "f">>,
      <<"e", "x", "e", "c", "u", "t", "e", "d">>,
      <<"s", "i", "g", "n", "a", "t", "u", "r", "e">>,
      <<"d", "a", "t", "e">>,
      <<"a", "d", "d", "r", "e", "s", "s">> }
ZhSignatureWords ==
    { <<"U7532", "U65B9">>, <<"U4E59", "U65B9">>, <<"U4E19", "U65B9">>,
      <<"U7B7E", "U7AE0">>, <<"U7B7E", "U5B57">>, <<"U76D6", "U7AE0">>,
      <<"U65E5", "U671F">>, <<"U5730", "U5740">> }
ZhBrackets == {"U3010", "U3011", "U300C", "U300D", "U300E", "U300F"}

\* /^(Article|Section|ARTICLE|SECTION)\s*[\d.]+/i
EnArticle(line) ==
    \E w \in {WordArticle, WordSection} :
        /\ StartsWithCI(line, w)
        /\ LET rest == Tail2(line, Len(w) + 1)
               k == LeadingCount(rest, WhiteSpace)
           IN  k < Len(rest) /\ rest[k + 1] \in Digits \cup {"."}

\* /^\d+[\.\)]\s+/
EnNumberedClause(line) ==
    LET d == LeadingCount(line, Digits)
    IN  /\ d >= 1
        /\ Len(line) >= d + 2
        /\ line[d + 1] \in {".", ")"}
        /\ line[d + 2] \in WhiteSpace

\* /^[A-Z][A-Z\s]+$/
EnSectionHeader(line) ==
    /\ Len(line) >= 2
    /\ line[1] \in UpperSet
    /\ \A i \in 2..Len(line) : line[i] \in UpperSet \cup WhiteSpace

\* /^(IN WITNESS WHEREOF|EXECUTED|Signature|Date|Address)/i
EnSignature(line) == \E w \in EnSignatureWords : StartsWithCI(line, w)

\* /^第[一二三四五六七八九十百千零\d]+[条章节款项]/
ZhArticle(line) ==
    /\ Len(line) >= 3
    /\ line[1] = "U7B2C"
    /\ LET rest == Tail2(line, 2)
           k == LeadingCount(rest, CJKArticleNumerals \cup Digits)
       IN  k >= 1 /\ k < Len(rest) /\ rest[k + 1] \in CJKArticleUnits

\* /^[（\(]?[一二三四五六七八九十\d]+[）\)、．.]/
ZhNumberedClause(line) ==
    LET o == IF line # <<>> /\ line[1] \in {"UFF08", "("} THEN 1 ELSE 0
        rest == Tail2(line, o + 1)
        k == LeadingCount(rest, CJKNumerals \cup Digits)
    IN  k >= 1 /\ k < Len(rest) /\ rest[k + 1] \in {"UFF09", ")", "U3001", "UFF0E", "."}

\* /^[【】「」『』【】].*?[【】「」『』【】]$/
ZhSectionHeader(line) ==
    /\ Len(line) >= 2
    /\ line[1] \in ZhBrackets
    /\ line[Len(line)] \in ZhBrackets

\* /^(甲方|乙方|丙方|签章|签字|盖章|日期|地址)/
ZhSignature(line) == \E w \in ZhSignatureWords : StartsWith(line, w)

PatternArticle(lang, line) == IF lang = "zh" THEN ZhArticle(line) ELSE EnArticle(line)
PatternNumberedClause(lang, line) ==
    IF lang = "zh" THEN ZhNumberedClause(line) ELSE EnNumberedClause(line)
PatternSectionHeader(lang, line) ==
    IF lang = "zh" THEN ZhSectionHeader(line) ELSE EnSectionHeader(line)
PatternSignature(lang, line) == IF lang = "zh" THEN ZhSignature(line) ELSE EnSignature(line)

\* the type a line starts, "none" for the code's null
NewSegmentType(lang, line) ==
    IF PatternArticle(lang, line) THEN "article"
    ELSE IF PatternNumberedClause(lang, line) THEN "clause"
    ELSE IF PatternSectionHeader(lang, line) THEN "header"
    ELSE IF PatternSignature(lang, line) THEN "signature"
    ELSE "none"

ImportanceOf(type) ==
    IF type \in {"article", "clause", "header"} THEN "high"
    ELSE IF type = "signature" THEN "low"
    ELSE "normal"

-----------------------------------------------------------------------------
(* identifyLegalStructure                                                  *)

RECURSIVE StructureLoop(_, _, _, _, _)
StructureLoop(lines, i, segments, currentSegment, lang) ==
    IF i > Len(lines)
    THEN IF trim(currentSegment.content) # <<>>
         THEN Append(segments, currentSegment)
         ELSE segments
    ELSE LET trimmedLine == trim(lines[i])
         IN  IF trimmedLine = <<>>
             THEN StructureLoop(lines, i + 1, segments,
                      IF currentSegment.content # <<>>
                      THEN [currentSegment EXCEPT !.content = @ \o <<LF>>]
                      ELSE currentSegment, lang)
             ELSE LET newSegmentType == NewSegmentType(lang, trimmedLine)
                      importance == ImportanceOf(newSegmentType)
                  IN  IF newSegmentType # "none" /\ trim(currentSegment.content) # <<>>
                      THEN StructureLoop(lines, i + 1, Append(segments, currentSegment),
                               [type |-> newSegmentType, content |-> trimmedLine,
                                importance |-> importance], lang)
                      ELSE LET joined == currentSegment.content
                                   \o (IF currentSegment.content # <<>> THEN <<LF>> ELSE <<>>)
                                   \o trimmedLine
                           IN  StructureLoop(lines, i + 1, segments,
                                   IF newSegmentType # "none"
                                   THEN [type |-> newSegmentType, content |-> joined,
                                         importance |-> importance]
                                   ELSE [currentSegment EXCEPT !.content = joined], lang)

identifyLegalStructure(s, lang) ==
    StructureLoop(SplitLines(s), 1, <<>>,
                  [type |-> "content", content |-> <<>>, importance |-> "normal"], lang)

-----------------------------------------------------------------------------
(* Sentence splitting                                                      *)

ZhSentenceEnders == {"U3002", "UFF01", "UFF1F", "UFF1B", ";", "!", "?"}
EnSentenceEnders == {".", "!", "?", ";"}
OverlapSentenceEnders == {"U3002", "UFF01", "UFF1F", ".", "!", "?", ";", "UFF1B"}

\* String.prototype.split on /(?<=[enders])\s+/ (minWs = 1) or
\* /(?<=[enders])\s*/ (minWs = 0): p is the start of the piece being cut, q the
\* position tried; a match that is empty at p is skipped, as split does
RECURSIVE SplitAfterEnders(_, _, _, _, _, _)
SplitAfterEnders(s, enders, minWs, p, q, acc) ==
    IF q > Len(s)
    THEN Append(acc, SubSeq(s, p, Len(s)))
    ELSE LET w == LeadingCount(Tail2(s, q), WhiteSpace)
             matches == q >= 2 /\ s[q - 1] \in enders /\ w >= minWs
             e == q + w
         IN  IF ~matches \/ e = p
             THEN SplitAfterEnders(s, enders, minWs, p, q + 1, acc)
             ELSE SplitAfterEnders(s, enders, minWs, e, e,
                                   Append(acc, SubSeq(s, p, q - 1)))

\* text.split(/([。！？；;!?])/) with parts[i] + parts[i + 1] glued back
RECURSIVE ZhRawSentences(_)
ZhRawSentences(s) ==
    LET at == {i \in 1..Len(s) : s[i] \in ZhSentenceEnders}
    IN  IF at = {} THEN <<s>>
        ELSE LET k == SetMin(at)
             IN  <<SubSeq(s, 1, k)>> \o ZhRawSentences(Tail2(s, k + 1))

RECURSIVE TrimAndDropEmpty(_)
TrimAndDropEmpty(ss) ==
    IF ss = <<>> THEN <<>>
    ELSE LET t == trim(Head(ss))
         IN  (IF t # <<>> THEN <<t>> ELSE <<>>) \o TrimAndDropEmpty(Tail(ss))

splitChineseSentences(s) == TrimAndDropEmpty(ZhRawSentences(s))

\* segment.content.split(/(?<=[.!?;])\s+/)
splitEnglishSentences(s) == SplitAfterEnders(s, EnSentenceEnders, 1, 1, 1, <<>>)

-----------------------------------------------------------------------------
(* Overlap                                                                 *)

OverlapMarker == <<"[", "U4E0A", "U6587", "U7EED", "]", " ">>

\* collect sentences from the end while tokens < targetTokens
RECURSIVE OverlapLoop(_, _, _, _, _)
OverlapLoop(sentences, i, overlapContent, tokens, targetTokens) ==
    IF i >= 1 /\ tokens < targetTokens
    THEN OverlapLoop(sentences, i - 1,
             sentences[i] \o (IF overlapContent # <<>> THEN <<SP>> \o overlapContent
                              ELSE <<>>),
             tokens + estimateTokens(sentences[i]), targetTokens)
    ELSE overlapContent

\* a variant that collects the sentences from the start of the chunk
RECURSIVE OverlapLoopFromStart(_, _, _, _, _)
OverlapLoopFromStart(sentences, i, overlapContent, tokens, targetTokens) ==
    IF i <= Len(sentences) /\ tokens < targetTokens
    THEN OverlapLoopFromStart(sentences, i + 1,
             (IF overlapContent # <<>> THEN overlapContent \o <<SP>> ELSE <<>>)
                 \o sentences[i],
             tokens + estimateTokens(sentences[i]), targetTokens)
    ELSE overlapContent

extractOverlapFromStart(content, targetTokens) ==
    LET sentences == SplitAfterEnders(content, OverlapSentenceEnders, 0, 1, 1, <<>>)
    IN  OverlapLoopFromStart(sentences, 1, <<>>, 0, targetTokens)

extractOverlap(content, targetTokens) ==
    LET sentences == SplitAfterEnders(content, OverlapSentenceEnders, 0, 1, 1, <<>>)
    IN  OverlapLoop(sentences, Len(sentences), <<>>, 0, targetTokens)

EmptyChunk ==
    [content |-> <<>>, tokens |-> 0, segments |-> <<>>, importance |-> "normal",
     hasOverlap |-> FALSE]

createOverlapChunk(previousChunk, cfg) ==
    IF previousChunk.content = <<>>
    THEN EmptyChunk
    ELSE LET overlapContent == extractOverlap(previousChunk.content, cfg.overlapTokens)
         IN  [content |-> IF overlapContent # <<>> THEN OverlapMarker \o overlapContent
                          ELSE <<>>,
              tokens |-> estimateTokens(overlapContent),
              segments |-> <<>>,
              importance |-> "normal",
              hasOverlap |-> overlapContent # <<>>]

-----------------------------------------------------------------------------
(* splitLongSegment, finalizeChunk                                         *)

RECURSIVE SubChunkLoop(_, _, _, _, _, _)
SubChunkLoop(sentences, i, subChunks, currentSubChunk, segment, cfg) ==
    IF i > Len(sentences)
    THEN IF currentSubChunk.content # <<>>
         THEN Append(subChunks, currentSubChunk) ELSE subChunks
    ELSE LET sentence == sentences[i]
             sentenceTokens == estimateTokens(sentence)
         IN  IF currentSubChunk.tokens + sentenceTokens <= cfg.maxChunkTokens
             THEN SubChunkLoop(sentences, i + 1, subChunks,
                      [currentSubChunk EXCEPT
                          !.content = @ \o (IF @ # <<>> THEN <<SP>> ELSE <<>>) \o sentence,
                          !.tokens = @ + sentenceTokens],
                      segment, cfg)
             ELSE SubChunkLoop(sentences, i + 1,
                      IF currentSubChunk.content # <<>>
                      THEN Append(subChunks, currentSubChunk) ELSE subChunks,
                      [content |-> sentence, tokens |-> sentenceTokens,
                       segments |-> <<segment.type>>, importance |-> segment.importance,
                       hasOverlap |-> FALSE],
                      segment, cfg)

splitLongSegment(segment, cfg, lang) ==
    LET sentences == IF lang = "zh" THEN splitChineseSentences(segment.content)
                     ELSE splitEnglishSentences(segment.content)
    IN  SubChunkLoop(sentences, 1, <<>>,
            [content |-> <<>>, tokens |-> 0, segments |-> <<segment.type>>,
             importance |-> segment.importance, hasOverlap |-> FALSE],
            segment, cfg)

\* [...new Set(xs)]: the first occurrence of each element, in order
RECURSIVE Distinct(_)
Distinct(xs) ==
    IF xs = <<>> THEN <<>>
    ELSE LET front == Distinct(SubSeq(xs, 1, Len(xs) - 1))
             last == xs[Len(xs)]
         IN  IF \E j \in 1..Len(front) : front[j] = last THEN front
             ELSE Append(front, last)

finalizeChunk(chunk, index) ==
    [content |-> chunk.content,
     metadata |-> [chunkIndex |-> index,
                   tokens |-> estimateTokens(chunk.content),
                   segmentTypes |-> Distinct(chunk.segments),
                   importance |-> chunk.importance,
                   hasOverlap |-> chunk.hasOverlap,
                   charCount |-> Len(chunk.content)]]

\* subChunks.map((c, idx) => finalizeChunk(c, chunks.length + idx))
FinalizeAll(subChunks, base) ==
    [k \in 1..Len(subChunks) |-> finalizeChunk(subChunks[k], base + k - 1)]

-----------------------------------------------------------------------------
(* smartChunk                                                              *)

\* the loop over the segments: the chunks pushed so far and the accumulator
RECURSIVE PackLoop(_, _, _, _, _, _)
PackLoop(segments, i, out, currentChunk, cfg, lang) ==
    IF i > Len(segments)
    THEN [chunks |-> out, currentChunk |-> currentChunk]
    ELSE LET segment == segments[i]
             segmentTokens == estimateTokens(segment.content)
             flushed == IF currentChunk.content # <<>>
                        THEN Append(out, finalizeChunk(currentChunk, Len(out)))
                        ELSE out
         IN  IF segmentTokens > cfg.maxChunkTokens
             THEN LET subChunks == splitLongSegment(segment, cfg, lang)
                  IN  PackLoop(segments, i + 1,
                          flushed \o FinalizeAll(subChunks, Len(flushed)),
                          createOverlapChunk(subChunks[Len(subChunks)], cfg),
                          cfg, lang)
             ELSE IF currentChunk.tokens + segmentTokens <= cfg.maxChunkTokens
             THEN PackLoop(segments, i + 1, out,
                      [currentChunk EXCEPT
                          !.content = @ \o (IF @ # <<>> THEN <<LF, LF>> ELSE <<>>)
                                        \o segment.content,
                          !.tokens = @ + segmentTokens,
                          !.segments = Append(@, segment.type),
                          !.importance = IF segment.importance = "high" THEN "high" ELSE @],
                      cfg, lang)
             ELSE LET seed == createOverlapChunk(currentChunk, cfg)
                      content == seed.content
                                 \o (IF seed.content # <<>> THEN <<LF, LF>> ELSE <<>>)
                                 \o segment.content
                  IN  PackLoop(segments, i + 1, flushed,
                          [content |-> content,
                           tokens |-> estimateTokens(content),
                           segments |-> <<segment.type>>,
                           importance |-> segment.importance,
                           hasOverlap |-> seed.hasOverlap],
                          cfg, lang)

Packed(s, cfg) ==
    LET lang == detectLanguage(s)
    IN  PackLoop(identifyLegalStructure(s, lang), 1, <<>>, EmptyChunk, cfg, lang)

\* the last chunk takes the small residual: content grows, tokens are re-measured
MergeIntoLast(out, currentChunk) ==
    LET n == Len(out)
        merged == out[n].content \o <<LF, LF>> \o currentChunk.content
    IN  [out EXCEPT ![n] = [content |-> merged,
                            metadata |-> [@.metadata EXCEPT
                                             !.tokens = estimateTokens(merged)]]]

FinalFlush(out, currentChunk, cfg) ==
    IF currentChunk.content # <<>> /\ currentChunk.tokens >= cfg.minChunkTokens
    THEN Append(out, finalizeChunk(currentChunk, Len(out)))
    ELSE IF currentChunk.content # <<>> /\ Len(out) > 0
    THEN MergeIntoLast(out, currentChunk)
    ELSE out

smartChunk(s, cfg) ==
    LET r == Packed(s, cfg)
    IN  FinalFlush(r.chunks, r.currentChunk, cfg)

-----------------------------------------------------------------------------
(* The chunker applied to bounded inputs                                   *)

MaxLines == 4

\* the lines a text is made of: a blank line, an English sentence, an English
\* numbered clause, an upper-case heading, a Chinese article heading, a Chinese
\* sentence
ChunkLines ==
    { <<>>,
      <<"a", "a", "a", ".">>,
      <<"1", ".", " ", "a">>,
      <<"A", "B">>,
      <<"U7B2C", "U4E00", "U6761">>,
      <<"U4E2D", "U4E2D", "U3002">> }

RECURSIVE JoinLines(_)
JoinLines(ls) ==
    IF Len(ls) = 0 THEN <<>>
    ELSE IF Len(ls) = 1 THEN ls[1]
    ELSE ls[1] \o <<LF>> \o JoinLines(Tail(ls))

ChunkTexts ==
    { JoinLines(ls) : ls \in UNION { [1..n -> ChunkLines] : n \in 1..MaxLines } }

\* options of smartChunk(text, options), small enough for short texts to
\* overflow a chunk
ChunkConfigs ==
    { [maxChunkTokens |-> 2, overlapTokens |-> 1, minChunkTokens |-> 1],
      [maxChunkTokens |-> 3, overlapTokens |-> 1, minChunkTokens |-> 2],
      [maxChunkTokens |-> 3, overlapTokens |-> 2, minChunkTokens |-> 1] }

NoResponse == [kind |-> "none"]
NoReply == [t |-> "none"]

\* no callAI call and no store in the picture
IdleCall == callMaxRetries = 0 /\ callLog = <<>> /\ callOutcome = "idle"
IdleStore == rows = {} /\ nextId = 0 /\ tasks = <<>>

InitChunk ==
    /\ text \in ChunkTexts
    /\ config \in ChunkConfigs
    /\ chunks = <<>>
    /\ pc = "input"
    /\ endpoint = "none"
    /\ batchStart = 0
    /\ outstanding = {}
    /\ batchResults = <<>>
    /\ chunkResults = <<>>
    /\ chunkReply = <<>>
    /\ reducerReply = NoReply
    /\ response = NoResponse
    /\ events = <<>>
    /\ cancelledAt = -1
    /\ IdleCall
    /\ IdleStore

SmartChunk ==
    /\ pc = "input"
    /\ chunks' = smartChunk(text, config)
    /\ pc' = "chunked"
    /\ UNCHANGED <<text, config>>
    /\ UNCHANGED analysisVars
    /\ UNCHANGED <<callVars, storeVars>>

NextChunk == SmartChunk

SpecChunk == InitChunk /\ [][NextChunk]_vars

-----------------------------------------------------------------------------
(* Claims about the chunker, checked under SpecChunk                       *)

\* the final flush took its second branch: the residual went into the last chunk
FinalMerged(s, cfg) ==
    LET r == Packed(s, cfg)
    IN  /\ r.currentChunk.content # <<>>
        /\ r.currentChunk.tokens < cfg.minChunkTokens
        /\ Len(r.chunks) > 0

Strip(s) == SelectSeq(s, LAMBDA c : c \notin WhiteSpace)

IsSuffix(a, b) == Len(a) <= Len(b) /\ SubSeq(b, Len(b) - Len(a) + 1, Len(b)) = a

\* the position of the first blank line (two line feeds) of s at or after
\* position from, Len(s) + 1 when there is none
FirstBlankLine(s, from) ==
    LET at == {k \in from..(Len(s) - 1) : s[k] = LF /\ s[k + 1] = LF}
    IN  IF at = {} THEN Len(s) + 1 ELSE SetMin(at)

\* C1: every chunk smartChunk returns, the last one excepted when the final
\* flush merged the small residual into it, has estimateTokens(content) <=
\* maxChunkTokens
C1_ChunkWithinMax ==
    pc = "chunked" =>
        \A i \in 1..Len(chunks) :
            \/ i = Len(chunks) /\ FinalMerged(text, config)
            \/ estimateTokens(chunks[i].content) <= config.maxChunkTokens

\* C2: the final flush never loses a non-empty residual: it is emitted when it
\* reaches minChunkTokens, merged into the last chunk when there is one, and
\* emitted as it is otherwise; so a text with a non-empty line gives at least
\* one chunk
C2_ResidualNeverLost ==
    pc = "chunked" =>
        LET r == Packed(text, config)
            cur == r.currentChunk
        IN  /\ cur.content # <<>> =>
                /\ Len(chunks) >= 1
                /\ IsSuffix(cur.content, chunks[Len(chunks)].content)
                /\ cur.tokens >= config.minChunkTokens \/ Len(r.chunks) = 0 =>
                       chunks[Len(chunks)].content = cur.content
            /\ trim(text) # <<>> => Len(chunks) >= 1

\* C3 as stated: when chunk i+1 has hasOverlap, its content begins with the
\* marker and the text between the marker and the first blank line is, modulo
\* whitespace, a suffix of chunk i's content
C3_OverlapUpToFirstBlankLine ==
    pc = "chunked" =>
        \A i \in 1..(Len(chunks) - 1) :
            chunks[i + 1].metadata.hasOverlap =>
                LET c == chunks[i + 1].content
                    m == Len(OverlapMarker)
                IN  /\ StartsWith(c, OverlapMarker)
                    /\ IsSuffix(Strip(SubSeq(c, m + 1, FirstBlankLine(c, m + 1) - 1)),
                                Strip(chunks[i].content))

\* C3 as amended: when chunk i+1 has hasOverlap, its content begins with the
\* marker, and the text between the marker and a blank line of the content (or
\* its end) is non-empty and is, modulo whitespace, a suffix of chunk i's content
C3_OverlapIsSuffixOfPrevious ==
    pc = "chunked" =>
        \A i \in 1..(Len(chunks) - 1) :
            chunks[i + 1].metadata.hasOverlap =>
                LET c == chunks[i + 1].content
                    m == Len(OverlapMarker)
                IN  /\ StartsWith(c, OverlapMarker)
                    /\ \E k \in (m + 1)..Len(c) :
                          /\ k = Len(c) \/ (k + 2 <= Len(c) /\ c[k + 1] = LF /\ c[k + 2] = LF)
                          /\ Strip(SubSeq(c, m + 1, k)) # <<>>
                          /\ IsSuffix(Strip(SubSeq(c, m + 1, k)), Strip(chunks[i].content))

\* C3's case: a chunk seeded with an overlap that itself spans a blank line,
\* followed by the new segment
C3_Witness ==
    /\ pc = "chunked"
    /\ \E i \in 1..(Len(chunks) - 1) :
          LET c == chunks[i + 1].content
              m == Len(OverlapMarker)
              b == FirstBlankLine(c, m + 1)
          IN  /\ chunks[i + 1].metadata.hasOverlap
              /\ b <= Len(c)
              /\ FirstBlankLine(c, b + 2) <= Len(c)

\* C4: when the text is one segment above maxChunkTokens, every chunk after the
\* first begins with the marker followed by text that is, modulo whitespace, a
\* suffix of the chunk before it
C4_SubChunksCarryOverlap ==
    pc = "chunked" =>
        LET segments == identifyLegalStructure(text, detectLanguage(text))
        IN  (Len(segments) = 1
             /\ estimateTokens(segments[1].content) > config.maxChunkTokens) =>
                \A i \in 2..Len(chunks) :
                    LET c == chunks[i].content
                        m == Len(OverlapMarker)
                    IN  /\ StartsWith(c, OverlapMarker)
                        /\ IsSuffix(Strip(SubSeq(c, m + 1, FirstBlankLine(c, m + 1) - 1)),
                                    Strip(chunks[i - 1].content))

\* C30: the metadata of every chunk agrees with its content: tokens is
\* estimateTokens(content) and charCount is the length of the content; when
\* the final flush merged the residual into the last chunk, segmentTypes of
\* that chunk holds the type of every segment of the residual and importance
\* is 'high' when the residual was
C30_MetadataAgreesWithContent ==
    pc = "chunked" =>
        /\ \A i \in 1..Len(chunks) :
              /\ chunks[i].metadata.tokens = estimateTokens(chunks[i].content)
              /\ chunks[i].metadata.charCount = Len(chunks[i].content)
        /\ FinalMerged(text, config) =>
              LET last == chunks[Len(chunks)].metadata
                  residual == Packed(text, config).currentChunk
              IN  /\ \A k \in 1..Len(residual.segments) :
                        \E j \in 1..Len(last.segmentTypes) :
                            last.segmentTypes[j] = residual.segments[k]
                  /\ residual.importance = "high" => last.importance = "high"

-----------------------------------------------------------------------------
(* Values of the LLM's JSON.  A number is Num(n); a missing property is    *)
(* Undefined for a number, "" for a string and <<>> for a text.            *)

Undefined == [t |-> "undefined"]
NaN == [t |-> "nan"]
Num(n) == [t |-> "num", v |-> n]

\* x || d where x is a number or missing: 0 and NaN are falsy
OrDefault(x, d) == IF x.t = "num" /\ x.v # 0 THEN x.v ELSE d

MathMin(a, b) == IF a <= b THEN a ELSE b
MathMax(a, b) == IF a >= b THEN a ELSE b

\* Math.max(0, Math.min(100, result.score || 50))
NormalizeScore(score) == MathMax(0, MathMin(100, OrDefault(score, 50)))

MinClauseLength == 10
MinDescriptionLength == 30
DedupKeyLength == 50

\* '未命名风险', '风险分析不完整'
UnnamedRisk == <<"U672A", "U547D", "U540D", "U98CE", "U9669">>
DescriptionIncomplete == <<"U98CE", "U9669", "U5206", "U6790", "U4E0D", "U5B8C", "U6574">>

\* '其他'
DefaultCategory == "other"

RiskLevels == {"high", "medium", "low"}
ReportRiskLevels == {"low", "medium", "high", "critical"}

\* ['high', 'medium', 'low'].includes(r.level) ? r.level : 'low'
NormalizeLevel(level) == IF level \in RiskLevels THEN level ELSE "low"

\* r.title || '未命名风险'
TitleOrDefault(title) == IF title # <<>> THEN title ELSE UnnamedRisk

\* summaries: '分块内容为空，跳过分析', '该片段分析跳过', '无法生成摘要',
\* '分析失败' (streaming handler), '分块内容为空' (sync handler), '无法生成总结'
SummaryEmptyChunk == "chunk-empty-skipped"
SummarySkipped == "chunk-skipped"
SummaryNone == "no-chunk-summary"
SummaryFailed == "analysis-failed"
SummaryEmptySync == "chunk-empty"
SummaryNoConclusion == "no-report-summary"

-----------------------------------------------------------------------------
(* analyzeChunk                                                            *)

\* one element of validatedRisks before the filter; Dropped stands for null
Dropped == [dropped |-> TRUE]

ValidateChunkRisk(r) ==
    LET clause == trim(r.clause)
        description == trim(r.description)
    IN  IF Len(clause) < MinClauseLength THEN Dropped
        ELSE [level |-> NormalizeLevel(r.level),
              title |-> TitleOrDefault(r.title),
              clause |-> clause,
              description |-> IF description # <<>> THEN description
                              ELSE DescriptionIncomplete]

validatedRisks(risks) ==
    SelectSeq([i \in 1..Len(risks) |-> ValidateChunkRisk(risks[i])],
              LAMBDA r : r # Dropped)

\* the catch of analyzeChunk
SkippedChunk ==
    [score |-> 50, summary |-> SummarySkipped, risks |-> <<>>, keyTerms |-> "array"]

\* analyzeChunk without its catch: the failure reaches the catch of the handler
analyzeChunkUncaught(chunkContent, reply) ==
    IF ~reply.ok
    THEN [score |-> 50, summary |-> SummaryFailed, risks |-> <<>>,
          keyTerms |-> "undefined"]
    ELSE [score |-> NormalizeScore(reply.score),
          summary |-> IF reply.summary # "" THEN reply.summary ELSE SummaryNone,
          risks |-> validatedRisks(reply.risks),
          keyTerms |-> IF reply.keyTerms = "undefined" THEN "array" ELSE reply.keyTerms]

\* reply is what callAI gave: ok = FALSE when it threw or returned no object
analyzeChunk(chunkContent, reply) ==
    IF chunkContent = <<>> \/ trim(chunkContent) = <<>>
    THEN [score |-> 50, summary |-> SummaryEmptyChunk, risks |-> <<>>,
          keyTerms |-> "array"]
    ELSE IF ~reply.ok
    THEN SkippedChunk
    ELSE [score |-> NormalizeScore(reply.score),
          summary |-> IF reply.summary # "" THEN reply.summary ELSE SummaryNone,
          risks |-> validatedRisks(reply.risks),
          keyTerms |-> IF reply.keyTerms = "undefined" THEN "array" ELSE reply.keyTerms]

-----------------------------------------------------------------------------
(* consolidateAnalysis                                                     *)

\* the risk of a report, from a risk of the reducer's reply
FromReducerRisk(r) ==
    [level |-> NormalizeLevel(r.level),
     title |-> TitleOrDefault(r.title),
     clause |-> trim(r.clause),
     description |-> trim(r.description),
     category |-> IF r.category # "" THEN r.category ELSE DefaultCategory]

\* the risk of a report, from a risk of a chunk result (which has no category);
\* trimmed on the success path, taken as it is on the degraded paths
FromChunkRisk(r, trimmed) ==
    [level |-> NormalizeLevel(r.level),
     title |-> TitleOrDefault(r.title),
     clause |-> IF trimmed THEN trim(r.clause) ELSE r.clause,
     description |-> IF trimmed THEN trim(r.description) ELSE r.description,
     category |-> DefaultCategory]

\* chunkResults.flatMap(r => r.risks || [])
RECURSIVE FlatRisks(_)
FlatRisks(results) ==
    IF results = <<>> THEN <<>>
    ELSE Head(results).risks \o FlatRisks(Tail(results))

IsValidRisk(r) ==
    Len(r.clause) >= MinClauseLength /\ Len(r.description) >= MinDescriptionLength

\* `${risk.title}_${risk.clause.substring(0, 50)}`
DedupKey(risk) ==
    risk.title \o <<"_">> \o SubSeq(risk.clause, 1, MathMin(DedupKeyLength, Len(risk.clause)))

\* the loop that keeps the first risk of each key and skips unnamed risks
RECURSIVE UniqueLoop(_, _, _, _)
UniqueLoop(risks, i, uniqueRisks, seen) ==
    IF i > Len(risks) THEN uniqueRisks
    ELSE LET risk == risks[i]
             key == DedupKey(risk)
         IN  IF key \notin seen /\ risk.title # <<>> /\ risk.title # UnnamedRisk
             THEN UniqueLoop(risks, i + 1, Append(uniqueRisks, risk), seen \cup {key})
             ELSE UniqueLoop(risks, i + 1, uniqueRisks, seen)

uniqueRisksOf(risks) == UniqueLoop(risks, 1, <<>>, {})

\* Array.prototype.sort with (order[b.level] || 0) - (order[a.level] || 0),
\* order = {high: 3, medium: 2, low: 1}; the sort is stable
sortByLevel(risks) ==
    SelectSeq(risks, LAMBDA r : r.level = "high")
        \o SelectSeq(risks, LAMBDA r : r.level = "medium")
        \o SelectSeq(risks, LAMBDA r : r.level = "low")
        \o SelectSeq(risks, LAMBDA r : r.level \notin RiskLevels)

\* the risks of the report when the reducer answered
risksOnSuccess(chunkResults_, replyRisks) ==
    LET consolidatedRisks ==
            SelectSeq([i \in 1..Len(replyRisks) |-> FromReducerRisk(replyRisks[i])],
                      IsValidRisk)
        flat == FlatRisks(chunkResults_)
        chunkRisks ==
            SelectSeq([i \in 1..Len(flat) |-> FromChunkRisk(flat[i], TRUE)], IsValidRisk)
    IN  IF Len(consolidatedRisks) = 0
        THEN sortByLevel(uniqueRisksOf(chunkRisks))
        ELSE sortByLevel(consolidatedRisks)

RECURSIVE SumScores(_)
SumScores(results) ==
    IF results = <<>> THEN 0
    ELSE (IF Head(results).score # 0 THEN Head(results).score ELSE 50)
         + SumScores(Tail(results))

\* Math.round(chunkResults.reduce((sum, r) => sum + (r.score || 50), 0) /
\* chunkResults.length): 0 / 0 is NaN
avgScoreOf(results) ==
    IF Len(results) = 0 THEN NaN
    ELSE Num((2 * SumScores(results) + Len(results)) \div (2 * Len(results)))

\* avgScore >= 80 ? 'low' : avgScore >= 60 ? 'medium' : avgScore >= 40 ? 'high'
\* : 'critical'; every comparison with NaN is false
riskLevelOfScore(score) ==
    IF score.t = "num" /\ score.v >= 80 THEN "low"
    ELSE IF score.t = "num" /\ score.v >= 60 THEN "medium"
    ELSE IF score.t = "num" /\ score.v >= 40 THEN "high"
    ELSE "critical"

\* '建议人工复核后签署', '建议修改后签署', '建议暂缓签署'
signRecommendationOfScore(score) ==
    IF score.t = "num" /\ score.v >= 70 THEN "sign-after-manual-review"
    ELSE IF score.t = "num" /\ score.v >= 50 THEN "sign-after-changes"
    ELSE "postpone-signing"

\* s && !s.includes('分析失败') && !s.includes('网络连接') && s !== '该片段分析跳过'
IsValidSummary(s) ==
    s # "" /\ s \notin {SummaryFailed, "network-connection-unstable", SummarySkipped}

validSummariesOf(results) ==
    SelectSeq([i \in 1..Len(results) |-> results[i].summary], IsValidSummary)

\* riskCategories of the degraded paths: category -> the distinct titles, in order
riskCategoriesOf(risks) ==
    [c \in {risks[i].category : i \in 1..Len(risks)} |->
        Distinct(LET mine == SelectSeq(risks, LAMBDA r : r.category = c)
                 IN  [i \in 1..Len(mine) |-> mine[i].title])]

NoCategories == [c \in {} |-> <<>>]

\* the summary of a degraded report: the sentence with the counts, then up to
\* three valid chunk summaries
AggregateSummary(results) ==
    <<"aggregate">> \o SubSeq(validSummariesOf(results), 1,
                              MathMin(3, Len(validSummariesOf(results))))

\* the report built in the catch of consolidateAnalysis
degradedReport(chunkResults_) ==
    LET flat == FlatRisks(chunkResults_)
        allRisksRaw == [i \in 1..Len(flat) |-> FromChunkRisk(flat[i], FALSE)]
        uniqueRisks == sortByLevel(uniqueRisksOf(allRisksRaw))
        avgScore == avgScoreOf(chunkResults_)
    IN  [score |-> avgScore,
         riskLevel |-> riskLevelOfScore(avgScore),
         summary |-> AggregateSummary(chunkResults_),
         riskCategories |-> riskCategoriesOf(uniqueRisks),
         risks |-> uniqueRisks,
         signRecommendation |-> signRecommendationOfScore(avgScore)]

\* summaryContext calls r.keyTerms?.join(', ') before the try: a keyTerms that
\* is neither missing nor an array throws a TypeError out of consolidateAnalysis
ReducerInputThrows(chunkResults_) ==
    \E i \in 1..Len(chunkResults_) : chunkResults_[i].keyTerms = "string"

Thrown == [t |-> "throw"]

consolidateAnalysis(chunkResults_, reply) ==
    IF ReducerInputThrows(chunkResults_) THEN Thrown
    ELSE IF ~reply.ok THEN [t |-> "report", v |-> degradedReport(chunkResults_)]
    ELSE [t |-> "report",
          v |-> [score |-> Num(NormalizeScore(reply.score)),
                 riskLevel |-> IF reply.riskLevel \in ReportRiskLevels
                               THEN reply.riskLevel ELSE "undefined",
                 summary |-> <<IF reply.summary # "" THEN reply.summary
                               ELSE SummaryNoConclusion>>,
                 riskCategories |-> IF reply.riskCategories.t = "object"
                                    THEN reply.riskCategories.v ELSE NoCategories,
                 risks |-> risksOnSuccess(chunkResults_, reply.risks),
                 signRecommendation |-> IF reply.signRecommendation # ""
                                        THEN reply.signRecommendation
                                        ELSE "manual-review-needed"]]

\* the report built in the catch around consolidateAnalysis of /analyze-sync
syncDegradedReport(chunkResults_) ==
    LET flat == FlatRisks(chunkResults_)
        allRisks == [i \in 1..Len(flat) |-> FromChunkRisk(flat[i], FALSE)]
        avgScore == avgScoreOf(chunkResults_)
    IN  [score |-> avgScore,
         riskLevel |-> riskLevelOfScore(avgScore),
         summary |-> AggregateSummary(chunkResults_),
         riskCategories |-> riskCategoriesOf(allRisks),
         risks |-> sortByLevel(allRisks),
         signRecommendation |-> signRecommendationOfScore(avgScore)]

-----------------------------------------------------------------------------
(* The analyze endpoints                                                   *)

StreamConcurrency == 3
SyncConcurrency == 4

\* every chunk of the job in one batch
concurrencyUnlimited(ep) == StreamConcurrency + SyncConcurrency

concurrencyOf(ep) == IF ep = "stream" THEN StreamConcurrency ELSE SyncConcurrency

\* CHUNK_CONFIG, scaled down so that texts of a few characters fill a chunk (the
\* source has maxChunkTokens 6000, overlapTokens 300, minChunkTokens 800)
CHUNK_CONFIG == [maxChunkTokens |-> 3, overlapTokens |-> 1, minChunkTokens |-> 2]

\* request texts: none, blank, one below minChunkTokens, one chunk, two chunks
AnalyzeTexts ==
    { <<>>,
      <<SP>>,
      <<"A", "B">>,
      <<"U7B2C", "U4E00", "U6761">>,
      <<"U7B2C", "U4E00", "U6761", LF, "U7B2C", "U4E00", "U6761">> }

Rep(c, n) == [i \in 1..n |-> c]

TitleOne == <<"T", "1">>
TitleTwo == <<"T", "2">>
ClauseOk == Rep("x", MinClauseLength)
ClausePadded == <<SP>> \o Rep("x", MinClauseLength - 1) \o <<SP>>
ClauseLongA == Rep("y", DedupKeyLength) \o <<"a">>
ClauseLongB == Rep("y", DedupKeyLength) \o <<"b">>
DescriptionOk == Rep("d", MinDescriptionLength)
DescriptionShort == Rep("d", MinDescriptionLength - 1)

RawRisk(level, title, clause, description, category) ==
    [level |-> level, title |-> title, clause |-> clause,
     description |-> description, category |-> category]

\* risks a chunk reply may carry
ChunkRiskPool ==
    { RawRisk("high", TitleOne, ClauseOk, DescriptionOk, ""),
      RawRisk("urgent", TitleOne, ClauseOk, DescriptionShort, ""),
      RawRisk("medium", <<>>, ClauseLongA, DescriptionOk, ""),
      RawRisk("medium", TitleTwo, ClauseLongA, DescriptionOk, "payment"),
      RawRisk("high", TitleTwo, ClauseLongB, DescriptionOk, ""),
      RawRisk("high", TitleTwo, ClausePadded, DescriptionOk, "") }

\* risks the reducer's reply may carry
ReducerRiskPool ==
    { RawRisk("high", TitleOne, ClauseOk, DescriptionOk, "payment"),
      RawRisk("low", TitleTwo, ClauseOk, DescriptionOk, ""),
      RawRisk("medium", TitleOne, ClauseOk, DescriptionShort, "payment") }

\* result.risks of a chunk reply: none or one risk
ChunkRiskLists == {<<>>} \cup { <<r>> : r \in ChunkRiskPool }

\* result.risks of the reducer's reply: none, one, or two (in either order, and
\* the same risk twice)
ReducerRiskLists ==
    {<<>>} \cup { <<r>> : r \in ReducerRiskPool }
           \cup { <<RawRisk("low", TitleTwo, ClauseOk, DescriptionOk, ""), r>> :
                      r \in ReducerRiskPool }
           \cup { <<r, r>> : r \in ReducerRiskPool }

FailedReply ==
    [ok |-> FALSE, score |-> Undefined, summary |-> "", risks |-> <<>>,
     keyTerms |-> "undefined"]

\* what callAI can give analyzeChunk
ChunkReplies ==
    {FailedReply}
    \cup { [ok |-> TRUE, score |-> sc, summary |-> "chunk-summary", risks |-> rs,
            keyTerms |-> "array"] :
             sc \in {Undefined, Num(0), Num(20), Num(130)},
             rs \in ChunkRiskLists }
    \cup { [ok |-> TRUE, score |-> Num(-5), summary |-> "", risks |-> rs,
            keyTerms |-> "string"] :
             rs \in {<<>>, <<RawRisk("high", TitleOne, ClauseOk, DescriptionOk, "")>>} }

GivenCategories == [c \in {"payment"} |-> <<TitleOne>>]

FailedReducerReply ==
    [ok |-> FALSE, score |-> Undefined, riskLevel |-> "", summary |-> "",
     risks |-> <<>>, riskCategories |-> Undefined, signRecommendation |-> ""]

\* what callAI can give consolidateAnalysis
ReducerReplies ==
    {FailedReducerReply}
    \cup { [ok |-> TRUE, score |-> sc, riskLevel |-> lv, summary |-> "report-summary",
            risks |-> rs, riskCategories |-> cats, signRecommendation |-> ""] :
             sc \in {Undefined, Num(0), Num(130)},
             lv \in {"", "critical", "severe"},
             rs \in ReducerRiskLists,
             cats \in {Undefined, [t |-> "object", v |-> GivenCategories]} }

Init ==
    /\ text \in AnalyzeTexts
    /\ config = CHUNK_CONFIG
    /\ endpoint \in {"stream", "sync"}
    /\ chunks = <<>>
    /\ pc = "request"
    /\ batchStart = 0
    /\ outstanding = {}
    /\ batchResults = <<>>
    /\ chunkResults = <<>>
    /\ chunkReply = <<>>
    /\ reducerReply = NoReply
    /\ response = NoResponse
    /\ events = <<>>
    /\ cancelledAt = -1
    /\ IdleCall
    /\ IdleStore

\* if (!text) return res.status(400)
RejectEmpty ==
    /\ pc = "request"
    /\ text = <<>>
    /\ response' = [kind |-> "badRequest"]
    /\ pc' = "done"
    /\ UNCHANGED <<text, config, chunks, endpoint, batchStart, outstanding,
                   batchResults, chunkResults, chunkReply, reducerReply, events,
                   cancelledAt>>
    /\ UNCHANGED <<callVars, storeVars>>

\* sendProgress(stage, progress, message)
Progress(stage, progress) == [stage |-> stage, progress |-> progress]

\* the records of the stream, none for /analyze-sync
emitted(ep, records) == IF ep = "stream" THEN records ELSE <<>>

\* const chunks = smartChunk(text), between the progress records of the start
Chunking ==
    /\ pc = "request"
    /\ text # <<>>
    /\ chunks' = smartChunk(text, config)
    /\ events' = events \o emitted(endpoint,
                       <<Progress("init", 0), Progress("chunking", 5),
                         Progress("chunking", 10), Progress("mapping", 15)>>)
    /\ pc' = "mapping"
    /\ UNCHANGED <<text, config, endpoint, batchStart, outstanding, batchResults,
                   chunkResults, chunkReply, reducerReply, response, cancelledAt>>
    /\ UNCHANGED <<callVars, storeVars>>

\* batch = chunks.slice(i, i + concurrency); every call of the batch is started
StartBatch ==
    /\ pc = "mapping"
    /\ batchStart < Len(chunks)
    /\ outstanding' = (batchStart + 1)..MathMin(batchStart + concurrencyOf(endpoint),
                                                Len(chunks))
    /\ batchResults' = <<>>
    /\ chunkReply' = <<>>
    /\ pc' = "batch"
    /\ UNCHANGED <<text, config, chunks, endpoint, batchStart, chunkResults,
                   reducerReply, response, events, cancelledAt>>
    /\ UNCHANGED <<callVars, storeVars>>

\* one promise of the batch settles; k is the chunk's position, k - 1 its index
settledEntry(ep, k, reply) ==
    LET chunkContent == chunks[k].content
    IN  IF ep = "sync" /\ (chunkContent = <<>> \/ trim(chunkContent) = <<>>)
        THEN [index |-> k - 1, success |-> FALSE,
              data |-> [score |-> 50, summary |-> SummaryEmptySync, risks |-> <<>>,
                        keyTerms |-> "undefined"]]
        ELSE [index |-> k - 1, success |-> TRUE,
              data |-> analyzeChunk(chunkContent, reply)]

ChunkSettles(k, reply) ==
    /\ pc = "batch"
    /\ k \in outstanding
    /\ outstanding' = outstanding \ {k}
    /\ batchResults' = batchResults @@ (k :> settledEntry(endpoint, k, reply))
    /\ chunkReply' = chunkReply @@ (k :> reply)
    /\ UNCHANGED <<text, config, chunks, pc, endpoint, batchStart, chunkResults,
                   reducerReply, response, events, cancelledAt>>
    /\ UNCHANGED <<callVars, storeVars>>

\* the entries from the last to the first
reverseEntries(entries) == [j \in 1..Len(entries) |-> entries[Len(entries) + 1 - j]]

\* batchResults.sort((a, b) => a.index - b.index)
RECURSIVE sortByIndex(_)
sortByIndex(entries) ==
    IF entries = <<>> THEN <<>>
    ELSE LET m == SetMin({entries[j].index : j \in 1..Len(entries)})
             at == SetMin({j \in 1..Len(entries) : entries[j].index = m})
         IN  <<entries[at]>>
             \o sortByIndex(SubSeq(entries, 1, at - 1) \o Tail2(entries, at + 1))

\* 15 + Math.round((i + batch.length) / chunks.length * 55)
mappingProgress(i, batchLength, chunkCount) ==
    15 + (2 * 55 * (i + batchLength) + chunkCount) \div (2 * chunkCount)

\* await Promise.all(batchPromises): the results in the order of the batch
\* chunkResults.push(...batchResults.sort(by index).map(r => r.data)); i += concurrency
EndBatch ==
    /\ pc = "batch"
    /\ outstanding = {}
    /\ LET n == Cardinality(DOMAIN batchResults)
           all == [j \in 1..n |-> batchResults[batchStart + j]]
           sorted == sortByIndex(all)
       IN  chunkResults' = chunkResults \o [j \in 1..n |-> sorted[j].data]
    /\ events' = events \o emitted(endpoint,
                       <<Progress("mapping",
                                  mappingProgress(batchStart,
                                                  Cardinality(DOMAIN batchResults),
                                                  Len(chunks)))>>)
    /\ batchStart' = batchStart + concurrencyOf(endpoint)
    /\ batchResults' = <<>>
    /\ chunkReply' = <<>>
    /\ pc' = "mapping"
    /\ UNCHANGED <<text, config, chunks, endpoint, outstanding, reducerReply, response,
                   cancelledAt>>
    /\ UNCHANGED <<callVars, storeVars>>

\* the rest of the handler, from consolidateAnalysis to the answer
responseOf(ep, results, reply) ==
    LET r == consolidateAnalysis(results, reply)
    IN  IF r.t = "report" THEN [kind |-> "report", report |-> r.v]
        ELSE IF ep = "stream" THEN [kind |-> "error"]
        ELSE [kind |-> "report", report |-> syncDegradedReport(results)]

\* a handler that goes on to the result after its catch wrote the error
reduceEventsBoth(kind) ==
    IF kind = "error"
    THEN <<[stage |-> "reducing", progress |-> 75], [stage |-> "error", progress |-> 0],
           [stage |-> "error", error |-> "message"],
           [stage |-> "result", progress |-> 100, data |-> "report"]>>
    ELSE <<[stage |-> "reducing", progress |-> 75], [stage |-> "reducing", progress |-> 90],
           [stage |-> "indexing", progress |-> 95], [stage |-> "complete", progress |-> 100],
           [stage |-> "result", progress |-> 100, data |-> "report"]>>

\* the records of the stream from the reduce stage on: the try ends with the
\* result record, the catch writes the error progress and the error record
reduceEvents(kind) ==
    IF kind = "error"
    THEN <<Progress("reducing", 75), Progress("error", 0),
           [stage |-> "error", error |-> "message"]>>
    ELSE <<Progress("reducing", 75), Progress("reducing", 90), Progress("indexing", 95),
           Progress("complete", 100),
           [stage |-> "result", progress |-> 100, data |-> "report"]>>

Reduce(reply) ==
    /\ pc = "mapping"
    /\ batchStart >= Len(chunks)
    /\ reducerReply' = reply
    /\ response' = responseOf(endpoint, chunkResults, reply)
    /\ events' = events \o emitted(endpoint,
                       reduceEvents(responseOf(endpoint, chunkResults, reply).kind))
    /\ pc' = "done"
    /\ UNCHANGED <<text, config, chunks, endpoint, batchStart, outstanding,
                   batchResults, chunkResults, chunkReply, cancelledAt>>
    /\ UNCHANGED <<callVars, storeVars>>

Next ==
    \/ RejectEmpty
    \/ Chunking
    \/ StartBatch
    \/ \E k \in 1..Len(chunks) : \E reply \in ChunkReplies : ChunkSettles(k, reply)
    \/ EndBatch
    \/ \E reply \in ReducerReplies : Reduce(reply)

Spec == Init /\ [][Next]_vars

-----------------------------------------------------------------------------
(* Properties of the reports                                               *)

ReportReturned == response.kind = "report"

\* consolidateAnalysis got an answer from the model and returned its report
ReducerAnswered ==
    /\ ReportReturned
    /\ reducerReply.ok
    /\ ~ReducerInputThrows(chunkResults)

LevelRank(level) == IF level = "high" THEN 3 ELSE IF level = "medium" THEN 2 ELSE 1

Clamp(n) == MathMin(100, MathMax(0, n))

\* C5: every risk of every returned report has a trimmed clause of at least 10
\* characters and a trimmed description of at least 30 characters
C5_ReportRisksValid ==
    ReportReturned =>
        \A i \in 1..Len(response.report.risks) :
            /\ Len(trim(response.report.risks[i].clause)) >= MinClauseLength
            /\ Len(trim(response.report.risks[i].description)) >= MinDescriptionLength

\* C6: the risks of every returned report are sorted high, then medium, then
\* low, and no two of them share the pair (title, first 50 characters of clause)
C6_ReportRisksSortedUnique ==
    ReportReturned =>
        LET risks == response.report.risks
        IN  /\ \A i, j \in 1..Len(risks) :
                   i < j => LevelRank(risks[i].level) >= LevelRank(risks[j].level)
            /\ \A i, j \in 1..Len(risks) :
                   i < j => DedupKey(risks[i]) # DedupKey(risks[j])

\* C7: every returned report has a risk level among low, medium, high and
\* critical: the reducer's level when it gave a valid one, otherwise the level
\* of the band of the report's score
C7_ReportRiskLevel ==
    ReportReturned =>
        LET report == response.report
        IN  /\ report.riskLevel \in ReportRiskLevels
            /\ IF ReducerAnswered /\ reducerReply.riskLevel \in ReportRiskLevels
               THEN report.riskLevel = reducerReply.riskLevel
               ELSE report.riskLevel = riskLevelOfScore(report.score)

\* C8: a numeric score s of the model, for a chunk or for the report, is
\* normalised to min(100, max(0, s)); 0 stays 0
C8_ScoreIsClamped ==
    /\ \A k \in DOMAIN chunkReply :
           (chunkReply[k].ok /\ chunkReply[k].score.t = "num" /\ batchResults[k].success)
               => batchResults[k].data.score = Clamp(chunkReply[k].score.v)
    /\ (ReducerAnswered /\ reducerReply.score.t = "num")
           => response.report.score = Num(Clamp(reducerReply.score.v))

\* C9: every report returned for a non-empty text has a numeric score between
\* 0 and 100
C9_ReportScoreInRange ==
    (ReportReturned /\ text # <<>>) =>
        /\ response.report.score.t = "num"
        /\ response.report.score.v >= 0
        /\ response.report.score.v <= 100

\* C10: a returned report that has risks has risk categories; when the reducer
\* omitted them or failed, they map each category of the final risks to the
\* distinct titles of the risks of that category
C10_RiskCategoriesPopulated ==
    (ReportReturned /\ Len(response.report.risks) > 0) =>
        LET report == response.report
            cats == report.riskCategories
            titles(c) == { report.risks[i].title :
                             i \in { j \in 1..Len(report.risks) :
                                       report.risks[j].category = c } }
        IN  /\ DOMAIN cats # {}
            /\ (~ReducerAnswered \/ reducerReply.riskCategories = Undefined) =>
                   /\ DOMAIN cats = { report.risks[i].category : i \in 1..Len(report.risks) }
                   /\ \A c \in DOMAIN cats :
                          /\ { cats[c][i] : i \in 1..Len(cats[c]) } = titles(c)
                          /\ Distinct(cats[c]) = cats[c]

\* the reduce step failed: callAI raised, or building its input raised
ReducerFailed ==
    /\ pc = "done"
    /\ reducerReply # NoReply
    /\ (~reducerReply.ok \/ ReducerInputThrows(chunkResults))

StagesOf(records) == { records[i].stage : i \in 1..Len(records) }

\* C11: when the reduce step fails, in either endpoint, the job still ends with
\* a report, the aggregate of the chunk results, and never with stage 'error'
C11_ReducerFailureStillReports ==
    ReducerFailed =>
        /\ response.kind = "report"
        /\ Head(response.report.summary) = "aggregate"
        /\ endpoint = "stream" =>
               /\ "error" \notin StagesOf(events)
               /\ events[Len(events)].stage = "result"

\* the catch of consolidateAnalysis built the report
ReducerRaised ==
    /\ ReportReturned
    /\ ~reducerReply.ok
    /\ ~ReducerInputThrows(chunkResults)

BandLevel(n) ==
    IF n >= 80 THEN "low" ELSE IF n >= 60 THEN "medium"
    ELSE IF n >= 40 THEN "high" ELSE "critical"

BandSign(n) ==
    IF n >= 70 THEN "sign-after-manual-review"
    ELSE IF n >= 50 THEN "sign-after-changes" ELSE "postpone-signing"

GroupedByCategory(risks, cats) ==
    /\ DOMAIN cats = { risks[i].category : i \in 1..Len(risks) }
    /\ \A c \in DOMAIN cats :
           { cats[c][i] : i \in 1..Len(cats[c]) }
               = { risks[i].title : i \in { j \in 1..Len(risks) : risks[j].category = c } }

\* C12: when the reducer raises, the report has risks whenever a chunk result
\* has a risk (a risk with a defaulted title included), its risk level and its
\* sign recommendation are those of the band of its score, and its risk
\* categories group its risks by category
C12_DegradedReport ==
    (ReducerRaised /\ Len(chunkResults) > 0) =>
        LET report == response.report
        IN  /\ FlatRisks(chunkResults) # <<>> => report.risks # <<>>
            /\ report.score.t = "num"
            /\ report.riskLevel = BandLevel(report.score.v)
            /\ report.signRecommendation = BandSign(report.score.v)
            /\ GroupedByCategory(report.risks, report.riskCategories)

-----------------------------------------------------------------------------
(* Jobs of several batches, with a client that may go away                  *)

ArticleLine == <<"U7B2C", "U4E00", "U6761">>

\* texts of three and of five chunks
JobTexts ==
    { JoinLines(<<ArticleLine, ArticleLine, ArticleLine>>),
      JoinLines(<<ArticleLine, ArticleLine, ArticleLine, ArticleLine, ArticleLine>>) }

\* callAI raises, or answers one of two analyses
JobChunkReplies ==
    { FailedReply,
      [ok |-> TRUE, score |-> Num(20), summary |-> "chunk-summary",
       risks |-> <<RawRisk("high", TitleOne, ClauseOk, DescriptionOk, "")>>,
       keyTerms |-> "array"],
      [ok |-> TRUE, score |-> Num(130), summary |-> "chunk-summary",
       risks |-> <<RawRisk("medium", TitleTwo, ClauseLongA, DescriptionOk, "")>>,
       keyTerms |-> "array"] }

JobReducerReplies ==
    { FailedReducerReply,
      [ok |-> TRUE, score |-> Num(130), riskLevel |-> "low", summary |-> "report-summary",
       risks |-> <<>>, riskCategories |-> Undefined, signRecommendation |-> ""] }

InitJob ==
    /\ text \in JobTexts
    /\ config = CHUNK_CONFIG
    /\ endpoint \in {"stream", "sync"}
    /\ chunks = <<>>
    /\ pc = "request"
    /\ batchStart = 0
    /\ outstanding = {}
    /\ batchResults = <<>>
    /\ chunkResults = <<>>
    /\ chunkReply = <<>>
    /\ reducerReply = NoReply
    /\ response = NoResponse
    /\ events = <<>>
    /\ cancelledAt = -1
    /\ IdleCall
    /\ IdleStore

\* the client closes the connection while chunk calls are in flight: neither
\* handler listens for it, the job goes on
ClientDisconnects ==
    /\ pc = "batch"
    /\ outstanding # {}
    /\ cancelledAt = -1
    /\ cancelledAt' = batchStart
    /\ UNCHANGED <<text, config, chunks, pc, endpoint, batchStart, outstanding,
                   batchResults, chunkResults, chunkReply, reducerReply, response, events>>
    /\ UNCHANGED <<callVars, storeVars>>

NextJob ==
    \/ Chunking
    \/ StartBatch
    \/ \E k \in 1..Len(chunks) : \E reply \in JobChunkReplies : ChunkSettles(k, reply)
    \/ EndBatch
    \/ \E reply \in JobReducerReplies : Reduce(reply)
    \/ ClientDisconnects

SpecJob == InitJob /\ [][NextJob]_vars

\* C13: a chunk whose LLM call raises gets the neutral placeholder (score 50,
\* summary '该片段分析跳过', no risks, no key terms) and the job goes on; the
\* reducer is called with exactly one result per chunk
C13_FailedChunkGivesPlaceholder ==
    /\ \A k \in DOMAIN chunkReply :
           ~chunkReply[k].ok =>
               /\ batchResults[k].index = k - 1
               /\ batchResults[k].data.score = 50
               /\ batchResults[k].data.summary = SummarySkipped
               /\ batchResults[k].data.risks = <<>>
               /\ batchResults[k].data.keyTerms = "array"
    /\ reducerReply # NoReply => Len(chunkResults) = Len(chunks)
    /\ pc = "done" => ReportReturned

C13_Witness ==
    /\ ReportReturned
    /\ Len(chunks) = 5
    /\ Len(chunkResults) = 5
    /\ chunkResults[2].summary = SummarySkipped
    /\ chunkResults[5].summary = SummarySkipped
    /\ chunkResults[1].summary # SummarySkipped

\* three chunks, the call of the second raised, the reducer failed
C14_Case ==
    /\ ReportReturned
    /\ ~reducerReply.ok
    /\ Len(chunks) = 3
    /\ Len(chunkResults) = 3
    /\ chunkResults[1].summary # SummarySkipped
    /\ chunkResults[2].summary = SummarySkipped
    /\ chunkResults[3].summary # SummarySkipped

\* C14: with three chunks, the second failing and the reducer failing, the
\* report has the risks of chunks 1 and 3, its summary has neither '分析失败'
\* nor '网络连接', and its score is the mean of the scores of chunks 1 and 3
C14_FailedChunkLeftOut ==
    C14_Case =>
        LET report == response.report
            kept == chunkResults[1].risks \o chunkResults[3].risks
        IN  /\ \A i \in 1..Len(kept) :
                   \E j \in 1..Len(report.risks) :
                       /\ report.risks[j].title = kept[i].title
                       /\ report.risks[j].clause = kept[i].clause
            /\ \A i \in 1..Len(report.summary) :
                   report.summary[i] \notin {SummaryFailed, "network-connection-unstable"}
            /\ report.score
                   = Num((chunkResults[1].score + chunkResults[3].score + 1) \div 2)

\* C15: during the map phase at most 3 (streaming) or 4 (sync) chunk calls
\* are outstanding, and the reduce step comes only after every chunk call of
\* the job has completed
C15_BoundedConcurrency ==
    /\ endpoint = "stream" => Cardinality(outstanding) <= StreamConcurrency
    /\ endpoint = "sync" => Cardinality(outstanding) <= SyncConcurrency
    /\ reducerReply # NoReply =>
           /\ outstanding = {}
           /\ Len(chunkResults) = Len(chunks)

C15_Witness ==
    /\ endpoint = "stream"
    /\ Len(chunks) = 5
    /\ Cardinality(outstanding) = StreamConcurrency
    /\ reducerReply = NoReply

\* C16: whatever order the chunk calls of a batch complete in, the results
\* pushed for the reducer are in document order, the k-th being the result of
\* the k-th chunk, and the reducer gets exactly one result per chunk
C16_ResultsInDocumentOrder ==
    [][/\ (pc = "batch" /\ pc' = "mapping") =>
              /\ Len(chunkResults') = Len(chunkResults) + Cardinality(DOMAIN chunkReply)
              /\ SubSeq(chunkResults', 1, Len(chunkResults)) = chunkResults
              /\ \A k \in DOMAIN chunkReply :
                     chunkResults'[k] = analyzeChunk(chunks[k].content, chunkReply[k])
       /\ (pc = "mapping" /\ pc' = "done") => Len(chunkResults) = Len(chunks)]_vars

\* the second batch of a streaming job: chunk 5 has settled before chunk 4, and
\* the first batch was pushed with different results for chunks 1 and 2
C16_Witness ==
    /\ pc = "batch"
    /\ batchStart = 3
    /\ Len(chunkResults) = 3
    /\ chunkResults[1] # chunkResults[2]
    /\ 5 \in DOMAIN batchResults
    /\ 4 \in outstanding

StageOrder == <<"init", "chunking", "mapping", "reducing", "indexing", "complete">>

StageRank(stage) == CHOOSE i \in 1..Len(StageOrder) : StageOrder[i] = stage

IsStageRecord(record) == \E i \in 1..Len(StageOrder) : StageOrder[i] = record.stage

\* {stage: 'result', progress: 100, data} or {stage: 'error', error}
IsTerminalRecord(record) == record.stage = "result" \/ "error" \in DOMAIN record

C18_CancelStopsJob ==
    cancelledAt # -1 =>
        /\ pc = "batch" => batchStart = cancelledAt
        /\ reducerReply = NoReply
        /\ ~ReportReturned
        /\ pc = "done" => response.kind = "error"

-----------------------------------------------------------------------------
(* callAI                                                                  *)

\* no analysis job in the picture
IdleJob ==
    /\ text = <<>>
    /\ config = CHUNK_CONFIG
    /\ chunks = <<>>
    /\ pc = "idle"
    /\ endpoint = "none"
    /\ batchStart = 0
    /\ outstanding = {}
    /\ batchResults = <<>>
    /\ chunkResults = <<>>
    /\ chunkReply = <<>>
    /\ reducerReply = NoReply
    /\ response = NoResponse
    /\ events = <<>>
    /\ cancelledAt = -1

\* maxRetries: 3 by default, 2 from analyzeChunk and consolidateAnalysis
RetryOptions == {1, 2, 3}

\* what an attempt can meet: a 200 whose content is JSON, a 200 with the JSON
\* inside other text, a 200 without JSON, a 4xx (resolved by validateStatus), a
\* 5xx (rejected by axios), a connection failure
ParsedReplies == {"json", "embedded"}
FailedAttempts == {"garbage", "4xx", "5xx", "network"}

InitCall ==
    /\ IdleJob
    /\ IdleStore
    /\ callMaxRetries \in RetryOptions
    /\ callLog = <<>>
    /\ callOutcome = "running"

\* one turn of the for loop: axios.post, then the parse or the catch
CallAttempt(met) ==
    /\ callOutcome = "running"
    /\ callLog' = Append(callLog, met)
    /\ callOutcome' = IF met \in ParsedReplies THEN "returned"
                      ELSE IF Len(callLog) + 1 < callMaxRetries THEN "running"
                      ELSE "thrown"
    /\ UNCHANGED <<callMaxRetries, jobVars, storeVars>>

NextCall == \E met \in ParsedReplies \cup FailedAttempts : CallAttempt(met)

SpecCall == InitCall /\ [][NextCall]_vars

\* C19: a 4xx response is never retried, it is the only attempt and the call
\* fails; a 5xx response or a connection failure is retried, up to maxRetries
\* attempts in total
C19_RetryPolicy ==
    /\ \A i \in 1..Len(callLog) :
           callLog[i] = "4xx" => (i = 1 /\ Len(callLog) = 1 /\ callOutcome = "thrown")
    /\ Len(callLog) <= callMaxRetries
    /\ (callOutcome = "thrown" /\ \A i \in 1..Len(callLog) : callLog[i] \in {"5xx", "network"})
           => Len(callLog) = callMaxRetries

-----------------------------------------------------------------------------
(* The map phase on a long contract, with the values of the source: the    *)
(* chunker's CHUNK_CONFIG as chunker.js has it and the character limit     *)
(* analyzeChunk gives to callAI                                            *)

DefaultChunkConfig ==
    [maxChunkTokens |-> 6000, overlapTokens |-> 300, minChunkTokens |-> 800]

AnalyzeChunkMaxContentLength == 6000
AnalyzeChunkMaxRetries == 2

\* String(n) of a natural number
RECURSIVE Decimal(_)
Decimal(n) ==
    LET digit == <<"0", "1", "2", "3", "4", "5", "6", "7", "8", "9">>[(n % 10) + 1]
    IN  IF n < 10 THEN <<digit>> ELSE Append(Decimal(n \div 10), digit)

\* `\n\n[内容已截断，仅分析前${maxContentLength}字符]`
TruncationMarker(maxContentLength) ==
    <<LF, LF, "[", "U5185", "U5BB9", "U5DF2", "U622A", "U65AD", "UFF0C",
      "U4EC5", "U5206", "U6790", "U524D">>
    \o Decimal(maxContentLength) \o <<"U5B57", "U7B26", "]">>

\* the user message of callAI's request
truncatedContent(userContent, maxContentLength) ==
    IF Len(userContent) > maxContentLength
    THEN SubSeq(userContent, 1, maxContentLength) \o TruncationMarker(maxContentLength)
    ELSE userContent

\* contracts of one line, Latin or Chinese, below, at and above the character
\* limit; each gives one chunk under the default configuration
LongLengths == {5720, 6000, 6001, 8571}
LongTexts == { Rep(c, n) : c \in {"a", "U4E2D"}, n \in LongLengths }

InitMap ==
    /\ text \in LongTexts
    /\ config = DefaultChunkConfig
    /\ chunks = <<>>
    /\ pc = "input"
    /\ endpoint = "none"
    /\ batchStart = 0
    /\ outstanding = {}
    /\ batchResults = <<>>
    /\ chunkResults = <<>>
    /\ chunkReply = <<>>
    /\ reducerReply = NoReply
    /\ response = NoResponse
    /\ events = <<>>
    /\ cancelledAt = -1
    /\ callMaxRetries = AnalyzeChunkMaxRetries
    /\ callLog = <<>>
    /\ callOutcome = "idle"
    /\ IdleStore

\* the chunk whose request is next: the chunk of the last attempt while that
\* attempt failed and a retry is left, the chunk after it otherwise
AttemptsFor(i) == Cardinality({k \in 1..Len(callLog) : callLog[k].chunk = i})
RequestedChunk ==
    IF callLog = <<>> THEN 1
    ELSE LET last == callLog[Len(callLog)]
         IN  IF last.met \in ParsedReplies \/ AttemptsFor(last.chunk) >= callMaxRetries
             THEN last.chunk + 1
             ELSE last.chunk

\* one attempt of the callAI call analyzeChunk makes for a chunk
ChunkRequest(met) ==
    /\ pc = "chunked"
    /\ RequestedChunk <= Len(chunks)
    /\ callLog' = Append(callLog,
           [chunk |-> RequestedChunk,
            content |-> truncatedContent(chunks[RequestedChunk].content,
                                         AnalyzeChunkMaxContentLength),
            met |-> met])
    /\ callOutcome' = IF met \in ParsedReplies THEN "returned"
                      ELSE IF AttemptsFor(RequestedChunk) + 1 < callMaxRetries
                      THEN "running"
                      ELSE "thrown"
    /\ UNCHANGED <<callMaxRetries, jobVars, storeVars>>

NextMap ==
    \/ SmartChunk
    \/ \E met \in ParsedReplies \cup FailedAttempts : ChunkRequest(met)

SpecMap == InitMap /\ [][NextMap]_vars

\* C28: the user message of every request of the map phase is the full content
\* of its chunk
C28_ChunkSentInFull ==
    \A k \in 1..Len(callLog) :
        callLog[k].content = chunks[callLog[k].chunk].content

-----------------------------------------------------------------------------
(* The vector store                                                        *)

MaxInserts == 4
BatchSize == 20
EmbedBatchSize == 10
EmbeddingInputLimit == 8000

Docs == {"docA", "docB"}

\* texts of one chunk and of two chunks
StoreTexts ==
    { ArticleLine, JoinLines(<<ArticleLine, ArticleLine>>) }

\* const chunks = smartChunk(text), for the texts of the store
StoreChunks == [t \in StoreTexts |-> smartChunk(t, CHUNK_CONFIG)]

Null == [t |-> "null"]

\* the embedding service is a fixed model; here the direction of the vector it
\* gives follows the first character of its input
EmbeddingModel(t) ==
    IF t = <<>> THEN <<1, 0>>
    ELSE IF t[1] = "U4E2D" THEN <<3, 4>>
    ELSE IF t[1] = "U6587" THEN <<4, 3>>
    ELSE IF t[1] = "a" THEN <<0, 1>>
    ELSE <<1, 0>>

\* what the service answers for a text: the vector of text.substring(0, 8000)
embeddingOf(t) ==
    LET input == SubSeq(t, 1, MathMin(Len(t), EmbeddingInputLimit))
    IN  [of |-> input, vec |-> EmbeddingModel(input)]

\* what a request of getBatchEmbeddings can meet: a response with
\* output.embeddings, a response without it, a failure
BatchOutcomes == {"ok", "missing", "throw"}

\* the loop of getBatchEmbeddings from offset i on; outcomes[b] is what the
\* request of batch b meets
RECURSIVE BatchLoop(_, _, _, _)
BatchLoop(texts, i, results, outcomes) ==
    IF i >= Len(texts) THEN [thrown |-> FALSE, results |-> results]
    ELSE LET b == (i \div EmbedBatchSize) + 1
             batch == SubSeq(texts, i + 1, MathMin(i + EmbedBatchSize, Len(texts)))
         IN  IF outcomes[b] = "throw" THEN [thrown |-> TRUE, results |-> <<>>]
             ELSE BatchLoop(texts, i + EmbedBatchSize,
                      IF outcomes[b] = "ok"
                      THEN results \o [k \in 1..Len(batch) |-> embeddingOf(batch[k])]
                      ELSE results,
                      outcomes)

getBatchEmbeddings(texts, outcomes) == BatchLoop(texts, 0, <<>>, outcomes)

\* the catch of indexDocument: getEmbedding text by text, null for a failure
individualEmbeddings(texts, failing) ==
    [i \in 1..Len(texts) |-> IF i \in failing THEN Null ELSE embeddingOf(texts[i])]

\* the embeddings indexDocument ends up with
embeddingsOf(texts, run) ==
    LET batched == getBatchEmbeddings(texts, run.batches)
    IN  IF batched.thrown THEN individualEmbeddings(texts, run.failing)
        ELSE batched.results

\* how the embedding requests of a call on n chunks can go: an outcome per
\* batch and, for the text-by-text fallback, the texts whose request fails: at
\* most MaxFailing of them, or all
MaxFailing == 2
EmbeddingRuns(n) ==
    LET batches == (n + EmbedBatchSize - 1) \div EmbedBatchSize
    IN  { [batches |-> bs, failing |-> f] :
              bs \in [1..batches -> BatchOutcomes],
              f \in { g \in SUBSET (1..n) : Cardinality(g) <= MaxFailing \/ g = 1..n } }

\* chunkRecords of indexDocument: one record per chunk, with the chunk's
\* metadata; embeddings[index] || null
chunkRecords(documentId, cs, embeddings) ==
    [i \in 1..Len(cs) |->
        [document_id |-> documentId,
         content |-> cs[i].content,
         embedding |-> IF i <= Len(embeddings) /\ embeddings[i] # Null
                       THEN embeddings[i] ELSE Null,
         chunkIndex |-> cs[i].metadata.chunkIndex,
         indexed_at |-> "now"]]

\* the records of the calls in flight that are not inserted yet
RECURSIVE PendingRecords(_)
PendingRecords(ts) ==
    IF ts = <<>> THEN 0
    ELSE Len(Head(ts).records) - Head(ts).offset + PendingRecords(Tail(ts))

RemoveAt(seq, i) == SubSeq(seq, 1, i - 1) \o SubSeq(seq, i + 1, Len(seq))

InitStore ==
    /\ IdleJob
    /\ IdleCall
    /\ rows = {}
    /\ nextId = 0
    /\ tasks = <<>>

\* indexDocument up to its first insert: chunks and embeddings are ready
startIndexing(documentId, cs, run, origin) ==
    Append(tasks,
        [documentId |-> documentId,
         records |-> chunkRecords(documentId, cs,
                         embeddingsOf([i \in 1..Len(cs) |-> cs[i].content], run)),
         offset |-> 0, origin |-> origin])

CanStart(cs) ==
    nextId + PendingRecords(tasks) + Len(cs) <= MaxInserts

\* the analyze handlers start indexDocument in the background and do not wait
AnalyzeIndexes(documentId, t, run) ==
    /\ CanStart(StoreChunks[t])
    /\ tasks' = startIndexing(documentId, StoreChunks[t], run, "analyze")
    /\ UNCHANGED <<rows, nextId, jobVars, callVars>>

\* .delete().eq('document_id', documentId)
withoutDocument(table, documentId) == { r \in table : r.document_id # documentId }

\* POST /reindex/:id: deleteDocumentVectors, whose failure only gives false,
\* then indexDocument
ReindexDeletes(documentId, t, run, deleted) ==
    /\ CanStart(StoreChunks[t])
    /\ rows' = IF deleted THEN withoutDocument(rows, documentId) ELSE rows
    /\ tasks' = startIndexing(documentId, StoreChunks[t], run, "reindex")
    /\ UNCHANGED <<nextId, jobVars, callVars>>

\* res.json({success: true, chunkCount}) of POST /reindex/:id, with the rows
\* the table holds for the document at that moment
reindexResponse(task, table) ==
    [kind |-> "reindexed",
     documentId |-> task.documentId,
     chunkCount |-> Len(task.records),
     records |-> task.records,
     stored |-> { r \in table : r.document_id = task.documentId }]

\* one turn of the insert loop of an indexDocument call: a batch of at most 20
\* records; an insert error is logged and the loop goes on.  After the last
\* turn indexDocument returns, and POST /reindex/:id responds
InsertBatch(i, inserted) ==
    /\ i \in 1..Len(tasks)
    /\ LET task == tasks[i]
           last == MathMin(task.offset + BatchSize, Len(task.records))
           batch == SubSeq(task.records, task.offset + 1, last)
           newRows == { [id |-> nextId + j,
                         document_id |-> batch[j].document_id,
                         content |-> batch[j].content,
                         embedding |-> batch[j].embedding,
                         chunkIndex |-> batch[j].chunkIndex,
                         indexed_at |-> batch[j].indexed_at] : j \in 1..Len(batch) }
       IN  /\ rows' = IF inserted THEN rows \cup newRows ELSE rows
           /\ nextId' = nextId + Len(batch)
           /\ tasks' = IF last >= Len(task.records) THEN RemoveAt(tasks, i)
                       ELSE [tasks EXCEPT ![i].offset = last]
           /\ response' = IF last >= Len(task.records) /\ task.origin = "reindex"
                          THEN reindexResponse(task, rows')
                          ELSE response
    /\ UNCHANGED <<text, config, chunks, pc, endpoint, batchStart, outstanding,
                   batchResults, chunkResults, chunkReply, reducerReply, events,
                   cancelledAt, callVars>>

\* VectorStore.deleteDocumentVectors on its own
DeleteVectors(documentId) ==
    /\ rows' = withoutDocument(rows, documentId)
    /\ UNCHANGED <<nextId, tasks, jobVars, callVars>>

\* the embedding requests of the store's calls: the batch request answers,
\* answers without embeddings, or fails with the first text's request failing
\* or not
StoreRuns ==
    { [batches |-> <<"ok">>, failing |-> {}],
      [batches |-> <<"missing">>, failing |-> {}],
      [batches |-> <<"throw">>, failing |-> {}],
      [batches |-> <<"throw">>, failing |-> {1}] }

NextStore ==
    \/ \E d \in Docs : \E t \in StoreTexts : \E run \in StoreRuns :
           AnalyzeIndexes(d, t, run)
    \/ \E d \in Docs : \E t \in StoreTexts : \E run \in StoreRuns :
           \E deleted \in BOOLEAN : ReindexDeletes(d, t, run, deleted)
    \/ \E i \in 1..Len(tasks) : \E inserted \in BOOLEAN : InsertBatch(i, inserted)
    \/ \E d \in Docs : DeleteVectors(d)

SpecStore == InitStore /\ [][NextStore]_vars

\* C20: the vector store never holds two chunks with the same document id and
\* chunk index
C20_UniqueChunkIndex ==
    \A r1, r2 \in rows :
        (r1.document_id = r2.document_id /\ r1.chunkIndex = r2.chunkIndex) => r1 = r2

\* C21: when POST /reindex/:id responds with chunkCount = n, the table holds
\* exactly the n chunks of the new text for the document: n rows, and every
\* record of the call among them
C21_ReindexStoresExactlyNewChunks ==
    response.kind = "reindexed" =>
        /\ Cardinality(response.stored) = response.chunkCount
        /\ \A i \in 1..Len(response.records) :
               \E r \in response.stored :
                   /\ r.content = response.records[i].content
                   /\ r.chunkIndex = response.records[i].chunkIndex

-----------------------------------------------------------------------------
(* indexDocument on a contract of more chunks than one embedding request   *)
(* takes                                                                   *)

\* a paragraph of ten sentences of two characters and a full stop, no two
\* alike: eleven chunks, ten for the first embedding request and one for the
\* second
SentenceCharacters ==
    <<"U4E2D", "U6587", "U98CE", "U9669", "U5206", "U6790", "U7532", "U4E59",
      "U4E19", "U65B9">>
LongContract ==
    [k \in 1..(3 * Len(SentenceCharacters)) |->
        IF k % 3 = 0 THEN "U3002" ELSE SentenceCharacters[(k + 2) \div 3]]
LongContractChunks == smartChunk(LongContract, CHUNK_CONFIG)

\* the analysis of the long contract starts indexDocument, once
IndexesLongContract(documentId, run) ==
    /\ tasks = <<>>
    /\ nextId = 0
    /\ tasks' = startIndexing(documentId, LongContractChunks, run, "analyze")
    /\ UNCHANGED <<rows, nextId, jobVars, callVars>>

NextIndex ==
    \/ \E d \in Docs : \E run \in EmbeddingRuns(Len(LongContractChunks)) :
           IndexesLongContract(d, run)
    \/ \E i \in 1..Len(tasks) : \E inserted \in BOOLEAN : InsertBatch(i, inserted)
    \/ \E d \in Docs : DeleteVectors(d)

SpecIndex == InitStore /\ [][NextIndex]_vars

\* C22: indexDocument builds one record per chunk, and the embedding of the
\* record of chunk i is null or the embedding of chunk i's own content
C22_EmbeddingOfOwnContent ==
    /\ \A k \in 1..Len(tasks) :
           /\ Len(tasks[k].records) = Len(LongContractChunks)
           /\ \A i \in 1..Len(tasks[k].records) :
                  LET record == tasks[k].records[i]
                  IN  /\ record.content = LongContractChunks[i].content
                      /\ \/ record.embedding = Null
                         \/ record.embedding = embeddingOf(record.content)
    /\ \A r \in rows :
           r.embedding = Null \/ r.embedding = embeddingOf(r.content)

-----------------------------------------------------------------------------
(* Search, question answering and index statistics over a stored table.    *)
(* Similarities are in hundredths: 0.5 is 50.                              *)

MatchThreshold == 50
MatchCount == 5
MaxContextTokens == 4000

\* Math.sqrt of a square
Root(n) == CHOOSE r \in 0..n : r * r = n

RECURSIVE SumOver(_, _)
SumOver(f, n) == IF n = 0 THEN 0 ELSE f[n] + SumOver(f, n - 1)

\* cosineSimilarity of two embeddings; the same quantity as
\* 1 - (embedding <=> query_embedding) of the stored procedures.  No vector of
\* the embedding model is zero, so the division is defined
cosineSimilarity(vecA, vecB) ==
    IF vecA = Null \/ vecB = Null THEN 0
    ELSE IF Len(vecA.vec) # Len(vecB.vec) THEN 0
    ELSE LET n == Len(vecA.vec)
             dotProduct == SumOver([i \in 1..n |-> vecA.vec[i] * vecB.vec[i]], n)
             normA == SumOver([i \in 1..n |-> vecA.vec[i] * vecA.vec[i]], n)
             normB == SumOver([i \in 1..n |-> vecB.vec[i] * vecB.vec[i]], n)
         IN  (100 * dotProduct) \div (Root(normA) * Root(normB))

\* a row as a search returns it: id, document_id, content, similarity
matchOf(r, queryEmbedding) ==
    [id |-> r.id, document_id |-> r.document_id, content |-> r.content,
     similarity |-> cosineSimilarity(queryEmbedding, r.embedding)]

\* the orders a sort by similarity, descending, can give to a set of matches
Rankings(S) ==
    LET n == Cardinality(S)
    IN  { f \in [1..n -> S] :
              /\ \A i, j \in 1..n : i # j => f[i] # f[j]
              /\ \A i \in 1..(n - 1) : f[i].similarity >= f[i + 1].similarity }

Limited(S, count) ==
    { SubSeq(f, 1, MathMin(count, Len(f))) : f \in Rankings(S) }

\* the stored procedures match_documents_in_doc and, with no target,
\* match_documents: what they can return
match_documents_in_doc(table, queryEmbedding, match_threshold, match_count, target_document_id) ==
    Limited({ matchOf(r, queryEmbedding) :
                  r \in { x \in table :
                            /\ x.embedding # Null
                            /\ target_document_id = "" \/ x.document_id = target_document_id
                            /\ cosineSimilarity(queryEmbedding, x.embedding)
                                   > match_threshold } },
            match_count)

\* a scan that leaves out .eq('document_id', documentId)
fallbackSearchAllDocuments(table, queryEmbedding, documentId, limit, scan) ==
    IF scan = "fail" THEN {<<>>}
    ELSE Limited({ matchOf(r, queryEmbedding) : r \in { x \in table : x.embedding # Null } },
                 limit)

\* fallbackSearch: the scan in process; scan is what the select meets
fallbackSearch(table, queryEmbedding, documentId, limit, scan) ==
    IF scan = "fail" THEN {<<>>}
    ELSE Limited({ matchOf(r, queryEmbedding) :
                       r \in { x \in table : /\ x.document_id = documentId
                                             /\ x.embedding # Null } },
                 limit)

\* step 3 of semanticSearch: the metadata of the rows found
withMetadata(result, table) ==
    [i \in 1..Len(result) |->
        LET r == CHOOSE x \in table : x.id = result[i].id
        IN  [id |-> result[i].id, document_id |-> result[i].document_id,
             content |-> result[i].content, similarity |-> result[i].similarity,
             metadata |-> [chunkIndex |-> r.chunkIndex, indexed_at |-> r.indexed_at]]]

\* semanticSearch: what it can return.  run tells what each request meets: the
\* embedding of the query ("ok", "fail"), the stored procedure ("ok", "error"
\* for an answer with error, "throw"), the select of the scan ("ok", "fail"),
\* the select of the metadata ("ok", "error", "throw")
semanticSearch(table, query, documentId, matchThreshold, matchCount, run) ==
    IF run.embed = "fail" \/ run.rpc = "throw" THEN {<<>>}
    ELSE LET queryEmbedding == embeddingOf(query)
             found ==
                 IF documentId # ""
                 THEN IF run.rpc = "error"
                      THEN fallbackSearch(table, queryEmbedding, documentId,
                                          matchCount, run.scan)
                      ELSE match_documents_in_doc(table, queryEmbedding,
                               matchThreshold, matchCount, documentId)
                 ELSE IF run.rpc = "error" THEN {<<>>}
                      ELSE match_documents_in_doc(table, queryEmbedding,
                               matchThreshold, matchCount, "")
         IN  { IF Len(result) = 0 THEN result
               ELSE IF run.hydrate = "throw" THEN <<>>
               ELSE IF run.hydrate = "error" THEN result
               ELSE withMetadata(result, table) : result \in found }

\* (chunk.similarity * 100).toFixed(1) of a similarity in hundredths
Percent(similarity) ==
    (IF similarity < 0 THEN <<"-">> \o Decimal(0 - similarity) ELSE Decimal(similarity))
    \o <<".", "0">>

\* `\n\n---\n[相关度: ${...}%]\n${chunk.content}`
contextEntry(chunk) ==
    <<LF, LF, "-", "-", "-", LF, "[", "U76F8", "U5173", "U5EA6", ":", SP>>
    \o Percent(chunk.similarity) \o <<"%", "]", LF>> \o chunk.content

\* the selection loop of buildContext
RECURSIVE SelectLoop(_, _, _, _, _)
SelectLoop(relevantChunks, i, context, tokenCount, selectedChunks) ==
    IF i > Len(relevantChunks)
    THEN [context |-> trim(context), chunks |-> selectedChunks,
          tokenCount |-> tokenCount]
    ELSE LET chunk == relevantChunks[i]
             chunkTokens == estimateTokens(chunk.content)
         IN  IF tokenCount + chunkTokens <= MaxContextTokens
             THEN SelectLoop(relevantChunks, i + 1, context \o contextEntry(chunk),
                      tokenCount + chunkTokens, Append(selectedChunks, chunk))
             ELSE SelectLoop(relevantChunks, i + 1, context, tokenCount,
                      selectedChunks)

\* buildContext, from the chunks semanticSearch returned
buildContext(relevantChunks) ==
    IF Len(relevantChunks) = 0
    THEN [context |-> <<>>, chunks |-> <<>>, tokenCount |-> 0]
    ELSE SelectLoop(relevantChunks, 1, <<>>, 0, <<>>)

\* what a result says of its chunks: id, document and similarity
Brief(result) ==
    [i \in 1..Len(result) |->
        [id |-> result[i].id, document_id |-> result[i].document_id,
         similarity |-> result[i].similarity,
         hydrated |-> "metadata" \in DOMAIN result[i]]]

\* RAGPipeline.query, from the chunks semanticSearch returned; met is what
\* ragQuery meets.  The confidence is the mean similarity, as sum and count
query(relevantChunks, met) ==
    LET built == buildContext(relevantChunks)
        n == Len(built.chunks)
    IN  IF built.context = <<>>
        THEN [answer |-> "notFound", sources |-> <<>>,
              confidence |-> [sum |-> 0, count |-> 1], contextTokens |-> 0]
        ELSE IF met = "thrown"
        THEN [answer |-> "error", sources |-> <<>>,
              confidence |-> [sum |-> 0, count |-> 1], contextTokens |-> 0]
        ELSE [answer |-> "answered",
              sources |-> [i \in 1..n |->
                  [content |-> SubSeq(built.chunks[i].content, 1,
                                      MathMin(200, Len(built.chunks[i].content)))
                               \o <<".", ".", ".">>,
                   similarity |-> built.chunks[i].similarity]],
              confidence |-> [sum |-> SumOver([i \in 1..n |-> built.chunks[i].similarity], n),
                              count |-> n],
              contextTokens |-> built.tokenCount]

\* getIndexStats; failed: the select answers with an error
getIndexStats(table, documentId, failed) ==
    IF failed
    THEN [totalChunks |-> 0, indexedChunks |-> 0, isFullyIndexed |-> FALSE]
    ELSE LET data == { r \in table : r.document_id = documentId }
             hasEmbedding == Cardinality({ c \in data : c.indexed_at # "" })
         IN  [totalChunks |-> Cardinality(data),
              indexedChunks |-> hasEmbedding,
              isFullyIndexed |-> hasEmbedding = Cardinality(data)]

\* contracts of one chunk under the configuration of chunker.js, of 840 and of
\* 4004 estimated tokens; and the questions asked
RagTexts == <<Rep("U6587", 1200), Rep("U98CE", 5720)>>
Questions == { <<"a">>, <<"U98CE">> }

\* const chunks = smartChunk(text), for these contracts
RagChunks == [k \in 1..Len(RagTexts) |-> smartChunk(RagTexts[k], DefaultChunkConfig)]

\* the indexDocument calls a table can come from: a document id, a contract,
\* and the embedding request answering or answering without embeddings
DocList == <<"docA", "docB">>
RunList == << [batches |-> <<"ok">>, failing |-> {}],
              [batches |-> <<"missing">>, failing |-> {}] >>
IndexCalls ==
    [k \in 1..(Len(DocList) * Len(RagTexts) * Len(RunList)) |->
        [documentId |-> DocList[((k - 1) % Len(DocList)) + 1],
         text |-> (((k - 1) \div Len(DocList)) % Len(RagTexts)) + 1,
         run |-> RunList[((k - 1) \div (Len(DocList) * Len(RagTexts))) + 1]]]

\* the rows an insert gives to a batch of records
insertedRows(batch, firstId) ==
    { [id |-> firstId + j,
       document_id |-> batch[j].document_id,
       content |-> batch[j].content,
       embedding |-> batch[j].embedding,
       chunkIndex |-> batch[j].chunkIndex,
       indexed_at |-> batch[j].indexed_at] : j \in 1..Len(batch) }

\* the table after the calls of the set picked, every insert having succeeded
RECURSIVE IndexedTable(_, _, _)
IndexedTable(picked, table, next) ==
    IF picked = {} THEN table
    ELSE LET k == SetMin(picked)
             call == IndexCalls[k]
             cs == RagChunks[call.text]
             records == chunkRecords(call.documentId, cs,
                            embeddingsOf([i \in 1..Len(cs) |-> cs[i].content], call.run))
         IN  IndexedTable(picked \ {k}, table \cup insertedRows(records, next),
                          next + Len(records))

MaxIndexed == 2

InitRag ==
    /\ IdleJob
    /\ IdleCall
    /\ tasks = <<>>
    /\ \E picked \in { p \in SUBSET (1..Len(IndexCalls)) : Cardinality(p) <= MaxIndexed } :
           /\ rows = IndexedTable(picked, {}, 0)
           /\ nextId = Cardinality(rows)

\* what the requests of a search can meet
SearchRuns ==
    { [embed |-> "ok", rpc |-> "ok", scan |-> "ok", hydrate |-> "ok"],
      [embed |-> "fail", rpc |-> "ok", scan |-> "ok", hydrate |-> "ok"],
      [embed |-> "ok", rpc |-> "error", scan |-> "ok", hydrate |-> "ok"],
      [embed |-> "ok", rpc |-> "error", scan |-> "fail", hydrate |-> "ok"],
      [embed |-> "ok", rpc |-> "throw", scan |-> "ok", hydrate |-> "ok"],
      [embed |-> "ok", rpc |-> "ok", scan |-> "ok", hydrate |-> "error"],
      [embed |-> "ok", rpc |-> "ok", scan |-> "ok", hydrate |-> "throw"] }

Scopes == {""} \cup Docs
MatchCounts == {1, MatchCount}

OnlyResponseChanges ==
    UNCHANGED <<text, config, chunks, pc, endpoint, batchStart, outstanding,
                batchResults, chunkResults, chunkReply, reducerReply, events,
                cancelledAt, callVars, storeVars>>

\* VectorStore.semanticSearch
SemanticSearch(q, documentId, matchCount, run) ==
    /\ response = NoResponse
    /\ \E result \in semanticSearch(rows, q, documentId, MatchThreshold, matchCount, run) :
           response' = [kind |-> "search", query |-> q, documentId |-> documentId,
                        matchThreshold |-> MatchThreshold, matchCount |-> matchCount,
                        run |-> run, results |-> Brief(result)]
    /\ OnlyResponseChanges

\* POST /query: RAGPipeline.query; retrieved and selected are what
\* semanticSearch gave buildContext and what buildContext chose
Query(question, documentId, run, met) ==
    /\ response = NoResponse
    /\ \E relevantChunks \in
           semanticSearch(rows, question, documentId, MatchThreshold, MatchCount, run) :
           LET built == buildContext(relevantChunks)
           IN  response' = [kind |-> "answer", question |-> question,
                            documentId |-> documentId, run |-> run,
                            retrieved |-> Brief(relevantChunks),
                            selected |-> Brief(built.chunks),
                            tokenCount |-> built.tokenCount,
                            result |-> query(relevantChunks, met)]
    /\ OnlyResponseChanges

\* GET /index-stats/:id
IndexStats(documentId, failed) ==
    /\ response = NoResponse
    /\ response' = [kind |-> "stats", documentId |-> documentId, failed |-> failed,
                    stats |-> getIndexStats(rows, documentId, failed)]
    /\ OnlyResponseChanges

NextRag ==
    \/ \E q \in Questions : \E d \in Scopes : \E n \in MatchCounts :
           \E run \in SearchRuns : SemanticSearch(q, d, n, run)
    \/ \E q \in Questions : \E d \in Scopes : \E run \in SearchRuns :
           \E met \in {"answered", "thrown"} : Query(q, d, run, met)
    \/ \E d \in Docs : \E failed \in BOOLEAN : IndexStats(d, failed)

SpecRag == InitRag /\ [][NextRag]_vars

-----------------------------------------------------------------------------
(* Claims about search, question answering and statistics, under SpecRag   *)

rowOf(id) == CHOOSE r \in rows : r.id = id
TokensOf(brief) ==
    SumOver([i \in 1..Len(brief) |-> estimateTokens(rowOf(brief[i].id).content)],
            Len(brief))

\* C23: every chunk a search with a document id returns, from the stored
\* procedure or from the scan in process, belongs to that document; so does
\* every chunk a question with a document id retrieves
C23_ScopedSearchStaysInDocument ==
    /\ (response.kind = "search" /\ response.documentId # "") =>
           \A i \in 1..Len(response.results) :
               response.results[i].document_id = response.documentId
    /\ (response.kind = "answer" /\ response.documentId # "") =>
           \A i \in 1..Len(response.retrieved) :
               response.retrieved[i].document_id = response.documentId

\* a search in docA returned a chunk from the scan in process while docB holds
\* an embedded chunk
C23_Witness ==
    /\ response.kind = "search"
    /\ response.documentId = "docA"
    /\ response.run.rpc = "error"
    /\ Len(response.results) > 0
    /\ \E r \in rows : r.document_id = "docB" /\ r.embedding # Null

\* the scan in process over the embedded chunks of the scope, with metadata
ExpectedScan(q, documentId, count) ==
    LET scanned == { matchOf(r, embeddingOf(q)) :
                         r \in { x \in rows : /\ x.embedding # Null
                                              /\ documentId = "" \/ x.document_id = documentId } }
    IN  { Brief(withMetadata(result, rows)) : result \in Limited(scanned, count) }

\* C24: when the stored procedure fails, a search with or without a document
\* id returns what the scan in process gives; when the scan fails as well, or
\* the embedding of the query or the reading of the metadata fails, it returns
\* the empty list; and a question whose search returned nothing gets the stock
\* 'not found' answer with confidence 0
C24_SearchFailuresFallBack ==
    /\ response.kind = "search" =>
           LET run == response.run
           IN  /\ (run.embed = "ok" /\ run.rpc # "ok" /\ run.scan = "ok") =>
                      response.results \in
                          ExpectedScan(response.query, response.documentId,
                                       response.matchCount)
               /\ (run.embed = "fail" \/ (run.rpc # "ok" /\ run.scan = "fail")
                      \/ run.hydrate # "ok") =>
                      response.results = <<>>
    /\ (response.kind = "answer" /\ response.retrieved = <<>>) =>
           /\ response.result.answer = "notFound"
           /\ response.result.confidence.sum = 0

\* C25: buildContext selects a prefix of the retrieved chunks: the chunks up to
\* the first that would take the total above maxContextTokens, and no chunk
\* after it
C25_ContextIsPrefix ==
    response.kind = "answer" =>
        LET n == Len(response.selected)
        IN  /\ n <= Len(response.retrieved)
            /\ \A i \in 1..n : response.selected[i] = response.retrieved[i]
            /\ TokensOf(response.selected) <= MaxContextTokens
            /\ n < Len(response.retrieved) =>
                   TokensOf(SubSeq(response.retrieved, 1, n + 1)) > MaxContextTokens

\* C26: every result of a search has a similarity above the threshold asked
\* for, the results are at most matchCount, and they are in descending order
\* of similarity
C26_ResultsAboveThresholdAndOrdered ==
    response.kind = "search" =>
        /\ Len(response.results) <= response.matchCount
        /\ \A i \in 1..Len(response.results) :
               response.results[i].similarity > response.matchThreshold
        /\ \A i \in 1..(Len(response.results) - 1) :
               response.results[i].similarity >= response.results[i + 1].similarity

\* C27: a question whose search returned a chunk is answered from context:
\* buildContext selects a chunk and the answer is not the stock 'not found'
C27_RetrievedMeansAnswered ==
    (response.kind = "answer" /\ Len(response.retrieved) > 0) =>
        /\ Len(response.selected) > 0
        /\ response.result.answer # "notFound"

\* C29: indexedChunks is the number of stored chunks of the document with an
\* embedding, and isFullyIndexed holds only when the document has a stored
\* chunk and every stored chunk of it has an embedding
C29_StatsReflectEmbeddings ==
    (response.kind = "stats" /\ ~response.failed) =>
        LET stored == { r \in rows : r.document_id = response.documentId }
            embedded == { r \in stored : r.embedding # Null }
        IN  /\ response.stats.indexedChunks = Cardinality(embedded)
            /\ response.stats.isFullyIndexed => (stored # {} /\ embedded = stored)

====
